---------------------------- MODULE Spec2Model ----------------------------
(***************************************************************************)
(* A model of dacpy/types.py: the DAAP/DACP value types (the eight         *)
(* fixed-width numerics, MultiInt/MultiUInt, DateTime, Version, String,    *)
(* Binary, Container, Node), their serialize/deserialize methods, the      *)
(* Python equality they define, Node.__getattr__ and build_node.           *)
(*                                                                         *)
(* Byte strings are sequences over 0..255.  A Python int is unbounded; it  *)
(* is kept as three limbs <<h, m, l>> standing for h*2^48 + m*2^24 + l     *)
(* with 0 <= m, l < 2^24 (h carries the sign), so that the 64-bit kinds    *)
(* are computed exactly.                                                   *)
(***************************************************************************)
EXTENDS Integers, Sequences, FiniteSets, TLC

VARIABLES op, arg, obj, how, buf, out, again, frame, prev

vars == <<op, arg, obj, how, buf, out, again, frame, prev>>

-----------------------------------------------------------------------------
(* Python integers                                                         *)

Limb == 2^24

BigNorm(h, m, l) ==
    LET m1 == m + (l \div Limb)
    IN  <<h + (m1 \div Limb), m1 % Limb, l % Limb>>

FromInt(n) == BigNorm(0, 0, n)

BigAdd(a, b) == BigNorm(a[1] + b[1], a[2] + b[2], a[3] + b[3])

BigSub(a, b) == BigNorm(a[1] - b[1], a[2] - b[2], a[3] - b[3])

BigLt(a, b) ==
    \/ a[1] < b[1]
    \/ a[1] = b[1] /\ a[2] < b[2]
    \/ a[1] = b[1] /\ a[2] = b[2] /\ a[3] < b[3]

\* 1 << n, for 0 <= n <= 64
Shl1(n) ==
    IF n < 24 THEN <<0, 0, 2^n>>
    ELSE IF n < 48 THEN <<0, 2^(n - 24), 0>>
    ELSE <<2^(n - 48), 0, 0>>

\* the int of a Python int known to lie in -2^24 .. 2^24 - 1
ToInt(a) == IF a[1] < 0 THEN a[3] - Limb ELSE a[3]

IsSmall(a) == (a[1] = 0 /\ a[2] = 0) \/ (a[1] = -1 /\ a[2] = Limb - 1)

-----------------------------------------------------------------------------
(* Results of operations that may raise                                    *)

NoValue == [cls |-> "None"]

Ok(v) == [ok |-> TRUE, val |-> v, err |-> ""]

Raise(e) == [ok |-> FALSE, val |-> NoValue, err |-> e]

\* the exception classes that `except ValueError` catches
IsValueError(e) ==
    e \in {"ValueError", "UnicodeDecodeError", "UnicodeEncodeError", "UnknownTagError"}

-----------------------------------------------------------------------------
(* struct: big-endian fixed-width integers                                 *)

\* the low 8 bytes of a Python int in two's complement, most significant first
Bytes8(v) ==
    LET h == v[1] % 65536
    IN  << h \div 256, h % 256,
           v[2] \div 65536, (v[2] \div 256) % 256, v[2] % 256,
           v[3] \div 65536, (v[3] \div 256) % 256, v[3] % 256 >>

\* the unsigned value of at most 8 bytes, most significant first
RECURSIVE UnsignedOf(_)
UnsignedOf(bytes) ==
    IF bytes = <<>> THEN <<0, 0, 0>>
    ELSE LET n    == Len(bytes)
             rest == UnsignedOf(SubSeq(bytes, 2, n))
             k    == n - 1
         IN  IF k < 3 THEN BigAdd(rest, <<0, 0, bytes[1] * 2^(8 * k)>>)
             ELSE IF k < 6 THEN BigAdd(rest, <<0, bytes[1] * 2^(8 * (k - 3)), 0>>)
             ELSE BigAdd(rest, <<bytes[1] * 2^(8 * (k - 6)), 0, 0>>)

\* struct.pack('>' + format_code, v)
struct_pack_mutant_little(length, signed, v) ==
    LET lo == IF signed THEN BigSub(<<0, 0, 0>>, Shl1(length * 8 - 1)) ELSE <<0, 0, 0>>
        hi == IF signed THEN Shl1(length * 8 - 1) ELSE Shl1(length * 8)
        b  == Bytes8(v)
    IN  IF BigLt(v, lo) \/ ~BigLt(v, hi) THEN Raise("struct.error")
        ELSE Ok([i \in 1..length |-> b[9 - i]])

struct_pack(length, signed, v) ==
    LET lo == IF signed THEN BigSub(<<0, 0, 0>>, Shl1(length * 8 - 1)) ELSE <<0, 0, 0>>
        hi == IF signed THEN Shl1(length * 8 - 1) ELSE Shl1(length * 8)
    IN  IF BigLt(v, lo) \/ ~BigLt(v, hi) THEN Raise("struct.error")
        ELSE Ok(SubSeq(Bytes8(v), 9 - length, 8))

\* struct.unpack_from('>' + format_code, bytes)[0]
struct_unpack_from(length, signed, bytes) ==
    IF Len(bytes) < length THEN Raise("struct.error")
    ELSE LET u == UnsignedOf(SubSeq(bytes, 1, length))
         IN  IF signed /\ bytes[1] >= 128
             THEN Ok(BigSub(u, Shl1(length * 8)))
             ELSE Ok(u)

-----------------------------------------------------------------------------
(* NumericType and Numeric                                                 *)

NumericNames == {"UByte", "Byte", "UShort", "Short", "UInt", "Int", "ULong", "Long"}

\* the class attributes `length` and `signed` of the eight numeric classes
ClassLength(cls) ==
    CASE cls \in {"UByte", "Byte"}   -> 1
      [] cls \in {"UShort", "Short"} -> 2
      [] cls \in {"UInt", "Int"}     -> 4
      [] cls \in {"ULong", "Long"}   -> 8

ClassSigned(cls) == cls \in {"Byte", "Short", "Int", "Long"}

min_value(cls) ==
    IF ClassSigned(cls)
    THEN BigSub(<<0, 0, 0>>, Shl1(ClassLength(cls) * 8 - 1))
    ELSE <<0, 0, 0>>

max_value(cls) ==
    IF ClassSigned(cls)
    THEN BigSub(Shl1(ClassLength(cls) * 8 - 1), <<0, 0, 1>>)
    ELSE BigSub(Shl1(ClassLength(cls) * 8), <<0, 0, 1>>)

\* Numeric.__init__ applied to a Python int
Numeric_init_mutant_no_upper(cls, value) ==
    IF BigLt(value, min_value(cls))
    THEN Raise("ValueError")
    ELSE Ok([cls |-> cls, value |-> value, length |-> ClassLength(cls)])

Numeric_init(cls, value) ==
    IF BigLt(value, min_value(cls)) \/ BigLt(max_value(cls), value)
    THEN Raise("ValueError")
    ELSE Ok([cls |-> cls, value |-> value, length |-> ClassLength(cls)])

Numeric_serialize(self) ==
    struct_pack(ClassLength(self.cls), ClassSigned(self.cls), self.value)

Numeric_deserialize(cls, bytes) ==
    LET u == struct_unpack_from(ClassLength(cls), ClassSigned(cls), bytes)
    IN  IF u.ok THEN Numeric_init(cls, u.val) ELSE u

-----------------------------------------------------------------------------
(* Tags (4-character codes, as byte strings) and the tag registry          *)

tag_msup == <<109, 115, 117, 112>>

tag_mstt == <<109, 115, 116, 116>>

tag_mpro == <<109, 112, 114, 111>>

tag_musr == <<109, 117, 115, 114>>

tag_msed == <<109, 115, 101, 100>>

tag_msml == <<109, 115, 109, 108>>

tag_msma == <<109, 115, 109, 97>>

tag_mlit == <<109, 108, 105, 116>>

tag_ceWM == <<99, 101, 87, 77>>

tag_minm == <<109, 105, 110, 109>>

tag_mstm == <<109, 115, 116, 109>>

tag_mstc == <<109, 115, 116, 99>>

tag_msrv == <<109, 115, 114, 118>>

tag_mlcl == <<109, 108, 99, 108>>

tag_cmpg == <<99, 109, 112, 103>>

tag_asrv == <<97, 115, 114, 118>>

tag_asbt == <<97, 115, 98, 116>>

tag_astn == <<97, 115, 116, 110>>

tag_asdt == <<97, 115, 100, 116>>

tag_meds == <<109, 101, 100, 115>>

tag_canp == <<99, 97, 110, 112>>

tag_caps == <<99, 97, 112, 115>>

\* tags.TAGS[tag][1]: the name of the value type registered for a tag
\* ("KeyError" when the table has no entry)
TagType(tag) ==
    CASE tag = tag_msup -> "UByte"
      [] tag = tag_msed -> "UByte"
      [] tag = tag_mstt -> "UInt"
      [] tag = tag_musr -> "UInt"
      [] tag = tag_mstm -> "UInt"
      [] tag = tag_msma -> "ULong"
      [] tag = tag_cmpg -> "ULong"
      [] tag = tag_asrv -> "Byte"
      [] tag = tag_asbt -> "UShort"
      [] tag = tag_astn -> "Short"
      [] tag = tag_asdt -> "Int"
      [] tag = tag_meds -> "Long"
      [] tag = tag_canp -> "MultiUInt"
      [] tag = tag_caps -> "MultiInt"
      [] tag = tag_mpro -> "Version"
      [] tag = tag_mstc -> "DateTime"
      [] tag = tag_minm -> "String"
      [] tag = tag_ceWM -> "Binary"
      [] tag = tag_msrv -> "Container"
      [] tag = tag_mlcl -> "Container"
      [] tag = tag_msml -> "Container"
      [] tag = tag_mlit -> "Container"
      [] OTHER -> "KeyError"

-----------------------------------------------------------------------------
(* MultiNumeric (MultiInt, MultiUInt)                                      *)

BaseType(cls) == IF cls = "MultiInt" THEN "Int" ELSE "UInt"

\* MultiNumeric.__init__ applied to a sequence of Python ints
MultiNumeric_init(cls, value) ==
    LET elems == [i \in 1..Len(value) |-> Numeric_init(BaseType(cls), value[i])]
    IN  IF \E i \in 1..Len(value) : ~elems[i].ok
        THEN Raise("ValueError")
        ELSE Ok([cls    |-> cls,
                 value  |-> [i \in 1..Len(value) |-> elems[i].val],
                 length |-> Len(value) * ClassLength(BaseType(cls))])

RECURSIVE JoinBytes(_)
JoinBytes(parts) ==
    IF parts = <<>> THEN <<>>
    ELSE Head(parts) \o JoinBytes(Tail(parts))

MultiNumeric_serialize(self) ==
    LET parts == [i \in 1..Len(self.value) |-> Numeric_serialize(self.value[i])]
    IN  IF \E i \in 1..Len(parts) : ~parts[i].ok
        THEN Raise("struct.error")
        ELSE Ok(JoinBytes([i \in 1..Len(parts) |-> parts[i].val]))

\* format = '>%d%s' % (len(bytes) / length, format_code): the count is the
\* floor of the quotient, and unpack_from reads that many elements
MultiNumeric_deserialize(cls, bytes) ==
    LET w      == ClassLength(BaseType(cls))
        n      == Len(bytes) \div w
        values == [i \in 1..n |->
                     struct_unpack_from(w, ClassSigned(BaseType(cls)),
                                        SubSeq(bytes, (i - 1) * w + 1, Len(bytes)))]
    IN  IF \E i \in 1..n : ~values[i].ok THEN Raise("struct.error")
        ELSE MultiNumeric_init(cls, [i \in 1..n |-> values[i].val])

-----------------------------------------------------------------------------
(* DateTime                                                                *)
(* A datetime is a naive local calendar instant: `loc` seconds after       *)
(* 1970-01-01 00:00:00 on the local clock, plus `us` microseconds.          *)

\* seconds east of UTC of the local zone (no daylight saving)
UtcOffset == -28800

PyNone == [none |-> TRUE, loc |-> <<0, 0, 0>>, us |-> 0]

datetime(loc, us) == [none |-> FALSE, loc |-> loc, us |-> us]

\* int(time.mktime(value.timetuple()))
mktime(value) == BigSub(value.loc, FromInt(UtcOffset))

\* datetime.fromtimestamp(val)
fromtimestamp(val) == datetime(BigAdd(val, FromInt(UtcOffset)), 0)

DateTime_init(value) == [cls |-> "DateTime", value |-> value, length |-> 4]

DateTime_serialize(self) ==
    IF self.value.none
    THEN Ok(<<255, 255, 157, 144>>)
    ELSE struct_pack(4, TRUE, mktime(self.value))

DateTime_deserialize_mutant_sentinel(bytes) ==
    LET val == struct_unpack_from(4, TRUE, bytes)
    IN  IF ~val.ok THEN val
        ELSE IF val.val = FromInt(-25200) THEN Ok(DateTime_init(PyNone))
        ELSE Ok(DateTime_init(fromtimestamp(val.val)))

DateTime_deserialize(bytes) ==
    LET val == struct_unpack_from(4, TRUE, bytes)
    IN  IF val.ok THEN Ok(DateTime_init(fromtimestamp(val.val))) ELSE val

-----------------------------------------------------------------------------
(* Version                                                                 *)

Version_init(value) == [cls |-> "Version", value |-> value, length |-> 4]

\* struct.pack('<4B', v[1], v[0], v[3], v[2])
Version_serialize(self) ==
    LET v == self.value
    IN  IF \E i \in 1..4 : v[i] < 0 \/ v[i] > 255
        THEN Raise("struct.error")
        ELSE Ok(<<v[2], v[1], v[4], v[3]>>)

\* variant: the decoded bytes are kept in buffer order
Version_deserialize_mutant_noswap(bytes) ==
    IF Len(bytes) < 4 THEN Raise("struct.error")
    ELSE Ok(Version_init(<<bytes[1], bytes[2], bytes[3], bytes[4]>>))

Version_deserialize(bytes) ==
    IF Len(bytes) < 4 THEN Raise("struct.error")
    ELSE Ok(Version_init(<<bytes[2], bytes[1], bytes[4], bytes[3]>>))

-----------------------------------------------------------------------------
(* String and Binary                                                       *)
(* A unicode value is a sequence of code points.                           *)

utf8_char(c) ==
    IF c < 128 THEN <<c>>
    ELSE IF c < 2048 THEN <<192 + (c \div 64), 128 + (c % 64)>>
    ELSE IF c < 65536
         THEN <<224 + (c \div 4096), 128 + ((c \div 64) % 64), 128 + (c % 64)>>
    ELSE <<240 + (c \div 262144), 128 + ((c \div 4096) % 64),
           128 + ((c \div 64) % 64), 128 + (c % 64)>>

\* value.encode(codec)
encode(value, codec) ==
    IF codec = "utf-8"
    THEN Ok(JoinBytes([i \in 1..Len(value) |-> utf8_char(value[i])]))
    ELSE IF \E i \in 1..Len(value) : value[i] > 255
         THEN Raise("UnicodeEncodeError")
         ELSE Ok(value)

IsCont(bytes, i) == i <= Len(bytes) /\ bytes[i] >= 128 /\ bytes[i] <= 191

\* bytes.decode('utf-8')
RECURSIVE utf8_decode(_)
utf8_decode(bytes) ==
    IF bytes = <<>> THEN Ok(<<>>)
    ELSE LET b == bytes[1]
             n == IF b < 128 THEN 1
                  ELSE IF b >= 194 /\ b <= 223 /\ IsCont(bytes, 2) THEN 2
                  ELSE IF b >= 224 /\ b <= 239 /\ IsCont(bytes, 2) /\ IsCont(bytes, 3)
                          /\ (b = 224 => bytes[2] >= 160) THEN 3
                  ELSE IF b >= 240 /\ b <= 244 /\ IsCont(bytes, 2) /\ IsCont(bytes, 3)
                          /\ IsCont(bytes, 4)
                          /\ (b = 240 => bytes[2] >= 144)
                          /\ (b = 244 => bytes[2] <= 143) THEN 4
                  ELSE 0
             c == CASE n = 1 -> b
                    [] n = 2 -> (b - 192) * 64 + (bytes[2] - 128)
                    [] n = 3 -> (b - 224) * 4096 + (bytes[2] - 128) * 64 + (bytes[3] - 128)
                    [] n = 4 -> (b - 240) * 262144 + (bytes[2] - 128) * 4096
                                + (bytes[3] - 128) * 64 + (bytes[4] - 128)
                    [] OTHER -> 0
         IN  IF n = 0 THEN Raise("UnicodeDecodeError")
             ELSE LET rest == utf8_decode(SubSeq(bytes, n + 1, Len(bytes)))
                  IN  IF rest.ok THEN Ok(<<c>> \o rest.val) ELSE rest

\* String.__init__ applied to a unicode value
String_init(value, codec) ==
    LET data == encode(value, codec)
    IN  IF data.ok
        THEN Ok([cls |-> "String", value |-> value, codec |-> codec,
                 length |-> Len(data.val)])
        ELSE data

String_serialize(self) == encode(self.value, self.codec)

String_deserialize(bytes) ==
    LET value == utf8_decode(bytes)
    IN  IF value.ok THEN String_init(value.val, "utf-8") ELSE value

Binary_init(value) == [cls |-> "Binary", value |-> value, length |-> Len(value)]

Binary_serialize(self) == Ok(self.value)

Binary_deserialize(bytes) == Ok(Binary_init(bytes))

-----------------------------------------------------------------------------
(* Container and Node                                                      *)

RECURSIVE SumLength(_)
SumLength(nodes) ==
    IF nodes = <<>> THEN 0 ELSE Head(nodes).length + SumLength(Tail(nodes))

\* Container.__init__: `text` records isinstance(self.value, String)
Container_init(value, isString) ==
    [cls |-> "Container", text |-> isString, value |-> value,
     length |-> IF isString THEN value.length ELSE SumLength(value)]

Node_init_mutant_header(tag, value) ==
    [cls |-> "Node", tag |-> tag, value |-> value, length |-> value.length + 4]

Node_init(tag, value) ==
    [cls |-> "Node", tag |-> tag, value |-> value, length |-> value.length + 8]

\* the '4s' field of struct.pack: the tag cut or NUL-padded to four bytes
pack4s(tag) == [i \in 1..4 |-> IF i <= Len(tag) THEN tag[i] ELSE 0]

RECURSIVE Node_serialize(_), Container_serialize(_)

\* x.serialize(), by the class of x
serialize(self) ==
    CASE self.cls \in NumericNames             -> Numeric_serialize(self)
      [] self.cls \in {"MultiInt", "MultiUInt"} -> MultiNumeric_serialize(self)
      [] self.cls = "DateTime"                 -> DateTime_serialize(self)
      [] self.cls = "Version"                  -> Version_serialize(self)
      [] self.cls = "String"                   -> String_serialize(self)
      [] self.cls = "Binary"                   -> Binary_serialize(self)
      [] self.cls = "Container"                -> Container_serialize(self)
      [] self.cls = "Node"                     -> Node_serialize(self)

\* the first error among results, else the joined bytes
JoinResults(parts) ==
    IF \E i \in 1..Len(parts) : ~parts[i].ok
    THEN parts[CHOOSE i \in 1..Len(parts) :
                 ~parts[i].ok /\ \A j \in 1..(i - 1) : parts[j].ok]
    ELSE Ok(JoinBytes([i \in 1..Len(parts) |-> parts[i].val]))

Container_serialize(self) ==
    IF self.text
    THEN String_serialize(self.value)
    ELSE JoinResults([i \in 1..Len(self.value) |-> Node_serialize(self.value[i])])

\* variant: the length field counts the 8-byte header as well
Node_serialize_mutant_total_length(self) ==
    LET data == serialize(self.value)
    IN  IF ~data.ok THEN data
        ELSE Ok(pack4s(self.tag)
                \o struct_pack(4, TRUE, FromInt(Len(data.val) + 8)).val
                \o data.val)

Node_serialize(self) ==
    LET data == serialize(self.value)
    IN  IF ~data.ok THEN data
        ELSE Ok(pack4s(self.tag)
                \o struct_pack(4, TRUE, FromInt(Len(data.val))).val
                \o data.val)

\* bytes[start:stop] for 0 <= start and any Python int stop
PySlice(bytes, start, stop) ==
    LET n == Len(bytes)
        e == IF BigLt(stop, <<0, 0, 0>>)
             THEN (IF BigLt(stop, FromInt(0 - n)) THEN 0 ELSE n + ToInt(stop))
             ELSE (IF BigLt(FromInt(n), stop) THEN n ELSE ToInt(stop))
    IN  SubSeq(bytes, start + 1, e)

RECURSIVE Node_deserialize(_), Container_loop(_, _, _)

Container_deserialize(bytes) == Container_loop(bytes, 0, <<>>)

\* tagtype.deserialize(data), by the class tagtype
deserialize(cls, bytes) ==
    CASE cls \in NumericNames             -> Numeric_deserialize(cls, bytes)
      [] cls \in {"MultiInt", "MultiUInt"} -> MultiNumeric_deserialize(cls, bytes)
      [] cls = "DateTime"                 -> DateTime_deserialize(bytes)
      [] cls = "Version"                  -> Version_deserialize(bytes)
      [] cls = "String"                   -> String_deserialize(bytes)
      [] cls = "Binary"                   -> Binary_deserialize(bytes)
      [] cls = "Container"                -> Container_deserialize(bytes)
      [] cls = "Node"                     -> Node_deserialize(bytes)

\* variant: the offset advances eight bytes too far after each child
Container_loop_mutant_skip(bytes, pos, values) ==
    IF pos >= Len(bytes) THEN Ok(Container_init(values, FALSE))
    ELSE LET rest == SubSeq(bytes, pos + 1, Len(bytes))
             val  == Node_deserialize(rest)
         IN  IF val.ok
             THEN Container_loop(bytes, pos + val.val.length + 8,
                                 Append(values, val.val))
             ELSE IF IsValueError(val.err)
             THEN LET s == String_deserialize(rest)
                  IN  IF s.ok THEN Ok(Container_init(s.val, TRUE)) ELSE s
             ELSE val

\* the while loop of Container.deserialize, at offset pos with `values` decoded
Container_loop(bytes, pos, values) ==
    IF pos >= Len(bytes) THEN Ok(Container_init(values, FALSE))
    ELSE LET rest == SubSeq(bytes, pos + 1, Len(bytes))
             val  == Node_deserialize(rest)
         IN  IF val.ok
             THEN Container_loop(bytes, pos + val.val.length, Append(values, val.val))
             ELSE IF IsValueError(val.err)
             THEN LET s == String_deserialize(rest)
                  IN  IF s.ok THEN Ok(Container_init(s.val, TRUE)) ELSE s
             ELSE val

Node_deserialize_mutant_keyerror(bytes) ==
    IF Len(bytes) < 8 THEN Raise("ValueError")
    ELSE LET tag  == SubSeq(bytes, 1, 4)
             size == struct_unpack_from(4, TRUE, SubSeq(bytes, 5, 8)).val
             data == PySlice(bytes, 8, BigAdd(FromInt(8), size))
         IN  IF FromInt(Len(data)) # size THEN Raise("ValueError")
             ELSE IF TagType(tag) = "KeyError" THEN Raise("KeyError")
             ELSE LET value == deserialize(TagType(tag), data)
                  IN  IF value.ok THEN Ok(Node_init(tag, value.val)) ELSE value

Node_deserialize_mutant_nocheck(bytes) ==
    IF Len(bytes) < 8 THEN Raise("ValueError")
    ELSE LET tag  == SubSeq(bytes, 1, 4)
             size == struct_unpack_from(4, TRUE, SubSeq(bytes, 5, 8)).val
             data == PySlice(bytes, 8, BigAdd(FromInt(8), size))
             tagtype == IF TagType(tag) = "KeyError" THEN "Binary" ELSE TagType(tag)
             value   == deserialize(tagtype, data)
         IN  IF value.ok THEN Ok(Node_init(tag, value.val)) ELSE value

Node_deserialize(bytes) ==
    IF Len(bytes) < 8 THEN Raise("ValueError")
    ELSE LET tag  == SubSeq(bytes, 1, 4)
             size == struct_unpack_from(4, TRUE, SubSeq(bytes, 5, 8)).val
             data == PySlice(bytes, 8, BigAdd(FromInt(8), size))
         IN  IF FromInt(Len(data)) # size THEN Raise("ValueError")
             ELSE LET tagtype == IF TagType(tag) = "KeyError"
                                 THEN "Binary" ELSE TagType(tag)
                      value   == deserialize(tagtype, data)
                  IN  IF value.ok THEN Ok(Node_init(tag, value.val)) ELSE value

-----------------------------------------------------------------------------
(* Equality (__eq__) of the value types                                    *)

\* whether x.value is itself one of the value objects (not a plain Python value)
HoldsObject(x) == x.cls = "Node" \/ (x.cls = "Container" /\ x.text)

IsAscii(bytes) == \A i \in 1..Len(bytes) : bytes[i] < 128

\* a.value == b.value for two plain Python values, by what each class holds:
\* int, tuple, datetime or None, unicode, str, list
RECURSIVE Eq(_, _), ValEq(_, _)

RawEq(a, b) ==
    LET ka == CASE a.cls \in NumericNames -> "int"
                [] a.cls \in {"MultiInt", "MultiUInt"} -> "numerics"
                [] a.cls = "Version" -> "tuple"
                [] a.cls = "DateTime" -> "datetime"
                [] a.cls = "String" -> "unicode"
                [] a.cls = "Binary" -> "str"
                [] OTHER -> "list"
        kb == CASE b.cls \in NumericNames -> "int"
                [] b.cls \in {"MultiInt", "MultiUInt"} -> "numerics"
                [] b.cls = "Version" -> "tuple"
                [] b.cls = "DateTime" -> "datetime"
                [] b.cls = "String" -> "unicode"
                [] b.cls = "Binary" -> "str"
                [] OTHER -> "list"
    IN  CASE ka = kb /\ ka \in {"int", "tuple", "datetime", "unicode", "str"} ->
               a.value = b.value
          [] ka = "numerics" /\ kb = "numerics" ->
               /\ Len(a.value) = Len(b.value)
               /\ \A i \in 1..Len(a.value) :
                    /\ a.value[i].value = b.value[i].value
                    /\ a.value[i].length = b.value[i].length
          [] ka = "numerics" /\ kb = "tuple" ->
               /\ Len(a.value) = Len(b.value)
               /\ \A i \in 1..Len(a.value) : a.value[i].value = FromInt(b.value[i])
          [] ka = "tuple" /\ kb = "numerics" ->
               /\ Len(a.value) = Len(b.value)
               /\ \A i \in 1..Len(a.value) : FromInt(a.value[i]) = b.value[i].value
          [] ka = "unicode" /\ kb = "str" -> IsAscii(b.value) /\ a.value = b.value
          [] ka = "str" /\ kb = "unicode" -> IsAscii(a.value) /\ a.value = b.value
          [] ka = "list" /\ kb = "list" ->
               /\ Len(a.value) = Len(b.value)
               /\ \A i \in 1..Len(a.value) : Eq(a.value[i], b.value[i])
          [] OTHER -> FALSE

\* a.value == b.value
ValEq(a, b) ==
    IF HoldsObject(a) /\ HoldsObject(b) THEN Eq(a.value, b.value)
    ELSE IF HoldsObject(a)
         THEN (IF a.value.cls = "Node" THEN FALSE ELSE ValEq(a.value, b))
    ELSE IF HoldsObject(b)
         THEN (IF b.value.cls = "Node" \/ a.cls = "DateTime" THEN FALSE
               ELSE ValEq(b.value, a))
    ELSE RawEq(a, b)

\* a == b: Node.__eq__, Numeric.__eq__, DAAPType.__eq__
Eq(a, b) ==
    IF a.cls = "Node"
    THEN b.cls = "Node" /\ a.tag = b.tag /\ Eq(a.value, b.value)
    ELSE IF a.cls \in NumericNames
    THEN ValEq(a, b) /\ a.length = b.length
    ELSE ValEq(a, b)

-----------------------------------------------------------------------------
(* Container.__contains__: membership by tag                               *)

\* the body of the for loop over a list: True at the first item whose tag
\* is the key, False at the first item that has no tag (AttributeError)
RECURSIVE contains_scan(_, _)
contains_scan(items, key) ==
    IF items = <<>> THEN FALSE
    ELSE IF Head(items).cls # "Node" THEN FALSE
    ELSE IF Head(items).tag = key THEN TRUE
    ELSE contains_scan(Tail(items), key)

\* `for i in self.value` on a String: the String defines neither __iter__
\* nor __getitem__, and the for statement is outside the try
Container_contains(self, key) ==
    IF self.text THEN Raise("TypeError")
    ELSE Ok(contains_scan(self.value, key))

-----------------------------------------------------------------------------
(* Node.__getattr__: child lookup by tag                                   *)

RECURSIVE SelectTag(_, _)
\* [item for item in self.value if item.tag == name]
SelectTag(nodes, name) ==
    IF nodes = <<>> THEN <<>>
    ELSE IF Head(nodes).tag = name
         THEN <<Head(nodes)>> \o SelectTag(Tail(nodes), name)
         ELSE SelectTag(Tail(nodes), name)

\* one element of the returned list: the child itself when its value is a
\* Container or a Node, else the plain value x.value.value (kept with its holder)
Exposed(x) ==
    IF x.value.cls \in {"Container", "Node"}
    THEN [child |-> TRUE, item |-> x]
    ELSE [child |-> FALSE, item |-> x.value]

\* iterating a Container that holds a String raises AttributeError (a String
\* has no __iter__), which the handler swallows before the final raise
Node_getattr(self, name) ==
    IF self.value.cls = "Container" /\ ~self.value.text
    THEN LET found == SelectTag(self.value.value, name)
         IN  Ok([i \in 1..Len(found) |-> Exposed(found[i])])
    ELSE Raise("AttributeError")

-----------------------------------------------------------------------------
(* build_node                                                              *)
(* A literal is [kind, v]: "int" (a Python int), "text" (unicode), "bytes" *)
(* (str), "tuple" (of small ints), "datetime", "call" (a callable that     *)
(* returns the literal v) or "list" (of (tag, literal) pairs).             *)

Lit(kind, v) == [kind |-> kind, v |-> v]

Pair(tag, lit) == [tag |-> tag, lit |-> lit]

IsDigits(text) == text # <<>> /\ \A i \in 1..Len(text) : text[i] >= 48 /\ text[i] <= 57

RECURSIVE DecimalOf(_)
DecimalOf(text) ==
    IF text = <<>> THEN 0
    ELSE DecimalOf(SubSeq(text, 1, Len(text) - 1)) * 10 + (text[Len(text)] - 48)

\* int(value) as Numeric.__init__ uses it: any failure becomes TypeError
IntOf(lit) ==
    CASE lit.kind = "int" -> Ok(lit.v)
      [] lit.kind \in {"text", "bytes"} ->
           IF IsDigits(lit.v) THEN Ok(FromInt(DecimalOf(lit.v))) ELSE Raise("TypeError")
      [] lit.kind \in {"tuple", "datetime", "list"} -> Raise("TypeError")

\* tagtype(value) for the leaf classes
Construct(cls, lit) ==
    CASE cls \in NumericNames ->
           LET n == IntOf(lit) IN IF n.ok THEN Numeric_init(cls, n.val) ELSE n
      [] cls \in {"MultiInt", "MultiUInt"} /\ lit.kind = "tuple" ->
           MultiNumeric_init(cls, [i \in 1..Len(lit.v) |-> FromInt(lit.v[i])])
      [] cls \in {"MultiInt", "MultiUInt"} /\ lit.kind \in {"int", "datetime"} ->
           Raise("TypeError")
      [] cls = "DateTime" /\ lit.kind = "datetime" -> Ok(DateTime_init(lit.v))
      [] cls = "Version" /\ lit.kind = "tuple" -> Ok(Version_init(lit.v))
      [] cls = "String" /\ lit.kind = "text" -> String_init(lit.v, "utf-8")
      [] cls = "String" /\ lit.kind = "bytes" ->
           IF IsAscii(lit.v) THEN String_init(lit.v, "utf-8")
           ELSE Raise("UnicodeDecodeError")
      [] cls = "Binary" /\ lit.kind = "bytes" -> Ok(Binary_init(lit.v))

RECURSIVE build_node(_)

\* [build_node(x) for x in value]: the first failure ends the comprehension
RECURSIVE build_list(_)
\* variant: each built child is put in front of the ones built before
build_list_mutant_reversed(pairs) ==
    IF pairs = <<>> THEN Ok(<<>>)
    ELSE LET first == build_node(Head(pairs))
         IN  IF ~first.ok THEN first
             ELSE LET rest == build_list(Tail(pairs))
                  IN  IF rest.ok THEN Ok(rest.val \o <<first.val>>) ELSE rest

build_list(pairs) ==
    IF pairs = <<>> THEN Ok(<<>>)
    ELSE LET first == build_node(Head(pairs))
         IN  IF ~first.ok THEN first
             ELSE LET rest == build_list(Tail(pairs))
                  IN  IF rest.ok THEN Ok(<<first.val>> \o rest.val) ELSE rest

build_node_mutant_binary(pair) ==
    LET value    == IF pair.lit.kind = "call" THEN pair.lit.v ELSE pair.lit
        typename == IF TagType(pair.tag) = "KeyError" THEN "Binary"
                    ELSE TagType(pair.tag)
    IN  IF typename = "Container"
        THEN IF value.kind = "list"
             THEN LET kids == build_list(value.v)
                  IN  IF kids.ok
                      THEN Ok(Node_init(pair.tag, Container_init(kids.val, FALSE)))
                      ELSE kids
             ELSE LET s == Construct("String", value)
                  IN  IF s.ok
                      THEN Ok(Node_init(pair.tag, Container_init(s.val, TRUE)))
                      ELSE s
        ELSE LET v == IF value.kind = "bytes" \/ typename # "Binary"
                      THEN Construct(typename, value)
                      ELSE Ok(Binary_init(<<>>))
             IN  IF v.ok THEN Ok(Node_init(pair.tag, v.val)) ELSE v

build_node(pair) ==
    LET value    == IF pair.lit.kind = "call" THEN pair.lit.v ELSE pair.lit
        typename == TagType(pair.tag)
    IN  IF typename = "KeyError" THEN Raise("UnknownTagError")
        ELSE IF typename = "Container"
        THEN IF value.kind = "list"
             THEN LET kids == build_list(value.v)
                  IN  IF kids.ok
                      THEN Ok(Node_init(pair.tag, Container_init(kids.val, FALSE)))
                      ELSE kids
             ELSE LET s == Construct("String", value)
                  IN  IF s.ok
                      THEN Ok(Node_init(pair.tag, Container_init(s.val, TRUE)))
                      ELSE s
        ELSE LET v == Construct(typename, value)
             IN  IF v.ok THEN Ok(Node_init(pair.tag, v.val)) ELSE v

-----------------------------------------------------------------------------
(* pairing.py: UInt32, a 32-bit word held as <<high 16 bits, low 16 bits>>  *)

Half == 65536

\* 0xffffffff & value, for a non-negative literal given by its halves
UInt32(hi, lo) == <<hi % Half, lo % Half>>

RECURSIVE BitAnd(_, _)
\* x & y on numbers below 2^16
BitAnd(x, y) ==
    IF x = 0 \/ y = 0 THEN 0
    ELSE (2 * BitAnd(x \div 2, y \div 2)) + ((x % 2) * (y % 2))

UInt32_add(x, y) ==
    LET lo == x[2] + y[2]
    IN  <<(x[1] + y[1] + (lo \div Half)) % Half, lo % Half>>

UInt32_sub(x, y) ==
    LET lo == x[2] - y[2]
    IN  <<(x[1] - y[1] + (lo \div Half)) % Half, lo % Half>>

\* (self.real << n) cut to 32 bits, 0 <= n < 32
UInt32_lshift(x, n) ==
    IF n >= 16 THEN <<(x[2] * 2^(n - 16)) % Half, 0>>
    ELSE <<(((x[1] * 2^n) % Half) + ((x[2] * 2^n) \div Half)) % Half,
           (x[2] * 2^n) % Half>>

UInt32_rshift(x, n) ==
    IF n >= 16 THEN <<0, x[1] \div 2^(n - 16)>>
    ELSE <<x[1] \div 2^n, ((x[1] % 2^n) * 2^(16 - n)) + (x[2] \div 2^n)>>

UInt32_and(x, y) == <<BitAnd(x[1], y[1]), BitAnd(x[2], y[2])>>

UInt32_or(x, y) ==
    <<x[1] + y[1] - BitAnd(x[1], y[1]), x[2] + y[2] - BitAnd(x[2], y[2])>>

UInt32_xor(x, y) ==
    <<x[1] + y[1] - 2 * BitAnd(x[1], y[1]), x[2] + y[2] - 2 * BitAnd(x[2], y[2])>>

\* 0xffffffff - self.real
UInt32_invert(x) == <<65535 - x[1], 65535 - x[2]>>

-----------------------------------------------------------------------------
(* pairing.py: generate_code                                               *)

\* the 64 pairs of statements of generate_code, in program order: the word
\* assigned, the shape of the mixing expression, the index into param, the
\* sign and the halves of the constant, the left shift
\*   "bc_nbd": (x & y) | (~x & z)     "bd_ndc": (x & z) | (~z & y)
\*   "xor":    x ^ y ^ z              "ndb_c":  (~z | x) ^ y
\* with x, y, z the three words that follow the assigned one in a, b, c, d
hash_steps ==
    <<
      <<"a", "bc_nbd", 0, -1, 10389, 23432, 7>>,
      <<"d", "bc_nbd", 1, -1, 5944, 18602, 12>>,
      <<"c", "bc_nbd", 2, 1, 9248, 28891, 17>>,
      <<"b", "bc_nbd", 3, -1, 15938, 12562, 22>>,
      <<"a", "bc_nbd", 4, -1, 2691, 61521, 7>>,
      <<"d", "bc_nbd", 5, 1, 18311, 50730, 12>>,
      <<"c", "bc_nbd", 6, -1, 22479, 47597, 17>>,
      <<"b", "bc_nbd", 7, -1, 697, 27391, 22>>,
      <<"a", "bc_nbd", 8, 1, 27008, 39128, 7>>,
      <<"d", "bc_nbd", 9, -1, 29883, 2129, 12>>,
      <<"c", "bc_nbd", 10, -1, 0, 42063, 17>>,
      <<"b", "bc_nbd", 11, -1, 30371, 10306, 22>>,
      <<"a", "bc_nbd", 12, 1, 27536, 4386, 7>>,
      <<"d", "bc_nbd", 13, -1, 615, 36461, 12>>,
      <<"c", "bc_nbd", 14, -1, 22918, 48242, 17>>,
      <<"b", "bc_nbd", 15, 1, 18868, 2081, 22>>,
      <<"a", "bd_ndc", 1, -1, 2529, 55966, 5>>,
      <<"d", "bd_ndc", 6, -1, 16319, 19648, 9>>,
      <<"c", "bd_ndc", 11, 1, 9822, 23121, 14>>,
      <<"b", "bd_ndc", 0, -1, 5705, 14422, 20>>,
      <<"a", "bd_ndc", 5, -1, 10704, 61347, 5>>,
      <<"d", "bd_ndc", 10, 1, 580, 5203, 9>>,
      <<"c", "bd_ndc", 15, -1, 10078, 6527, 14>>,
      <<"b", "bd_ndc", 4, -1, 6188, 1080, 20>>,
      <<"a", "bd_ndc", 9, 1, 8673, 52710, 5>>,
      <<"d", "bd_ndc", 14, -1, 15560, 63530, 9>>,
      <<"c", "bd_ndc", 3, -1, 2858, 62073, 14>>,
      <<"b", "bd_ndc", 8, 1, 17754, 5357, 20>>,
      <<"a", "bd_ndc", 13, -1, 22044, 5883, 5>>,
      <<"d", "bd_ndc", 2, -1, 784, 23560, 9>>,
      <<"c", "bd_ndc", 7, 1, 26479, 729, 14>>,
      <<"b", "bd_ndc", 12, -1, 29397, 45942, 20>>,
      <<"a", "xor", 5, -1, 5, 50878, 4>>,
      <<"d", "xor", 8, -1, 30862, 2431, 11>>,
      <<"c", "xor", 11, 1, 28061, 24866, 16>>,
      <<"b", "xor", 14, -1, 538, 51188, 23>>,
      <<"a", "xor", 1, -1, 23361, 5564, 4>>,
      <<"d", "xor", 4, 1, 19422, 53161, 11>>,
      <<"c", "xor", 7, -1, 2372, 46240, 16>>,
      <<"b", "xor", 10, -1, 16704, 17296, 23>>,
      <<"a", "xor", 13, 1, 10395, 32454, 4>>,
      <<"d", "xor", 0, -1, 5470, 55302, 11>>,
      <<"c", "xor", 3, -1, 11024, 53115, 16>>,
      <<"b", "xor", 6, 1, 1160, 7429, 23>>,
      <<"a", "xor", 9, -1, 9771, 12231, 4>>,
      <<"d", "xor", 12, -1, 6436, 26139, 11>>,
      <<"c", "xor", 15, 1, 8098, 31992, 16>>,
      <<"b", "xor", 2, -1, 15187, 43419, 23>>,
      <<"a", "ndb_c", 0, -1, 3030, 56764, 6>>,
      <<"d", "ndb_c", 7, 1, 17194, 65431, 10>>,
      <<"c", "ndb_c", 14, -1, 21611, 56409, 15>>,
      <<"b", "ndb_c", 5, -1, 876, 24519, 21>>,
      <<"a", "ndb_c", 9, 1, 25947, 22979, 6>>,
      <<"d", "ndb_c", 3, -1, 28915, 13166, 10>>,
      <<"c", "ndb_c", 10, -1, 16, 2947, 15>>,
      <<"b", "ndb_c", 1, -1, 31355, 41519, 21>>,
      <<"a", "ndb_c", 8, 1, 28584, 32335, 6>>,
      <<"d", "ndb_c", 15, -1, 467, 6432, 10>>,
      <<"c", "ndb_c", 6, -1, 23806, 48364, 15>>,
      <<"b", "ndb_c", 13, 1, 19976, 4513, 21>>,
      <<"a", "ndb_c", 4, -1, 2220, 33150, 6>>,
      <<"d", "ndb_c", 11, -1, 17093, 3531, 10>>,
      <<"c", "ndb_c", 2, 1, 10967, 53947, 15>>,
      <<"b", "ndb_c", 9, -1, 5241, 11375, 21>> >>

\* the three words that follow the assigned one in the cycle a, b, c, d
\* one pair of statements:
\*   t = <mix>(x, y, z) + param[g] + t +/- K
\*   t = ((t << s) | (t >> (32 - s))) + x
hash_step(st, param, row) ==
    LET t   == row[1]
        r   == CASE t = "a" -> <<"b", "c", "d">>
                 [] t = "d" -> <<"a", "b", "c">>
                 [] t = "c" -> <<"d", "a", "b">>
                 [] t = "b" -> <<"c", "d", "a">>
        x   == st[r[1]]
        y   == st[r[2]]
        z   == st[r[3]]
        mix == CASE row[2] = "bc_nbd" ->
                      UInt32_or(UInt32_and(x, y), UInt32_and(UInt32_invert(x), z))
                 [] row[2] = "bd_ndc" ->
                      UInt32_or(UInt32_and(x, z), UInt32_and(UInt32_invert(z), y))
                 [] row[2] = "xor" -> UInt32_xor(UInt32_xor(x, y), z)
                 [] row[2] = "ndb_c" -> UInt32_xor(UInt32_or(UInt32_invert(z), x), y)
        sum == UInt32_add(UInt32_add(mix, param[row[3] + 1]), st[t])
        v   == IF row[4] = 1 THEN UInt32_add(sum, UInt32(row[5], row[6]))
               ELSE UInt32_sub(sum, UInt32(row[5], row[6]))
        s   == row[7]
    IN  [st EXCEPT ![t] = UInt32_add(UInt32_or(UInt32_lshift(v, s),
                                               UInt32_rshift(v, 32 - s)), x)]

\* a = UInt32(0x67452301), b, c, d
hash_init ==
    [a |-> UInt32(26437, 8961), b |-> UInt32(61389, 43913),
     c |-> UInt32(39098, 56574), d |-> UInt32(4146, 21622)]

\* unicode.encode('utf-16'): the byte order mark and the code units (code
\* points below 2^16), in the byte order of the machine
utf16_encode(text, order) ==
    LET unit(c) == IF order = "little" THEN <<c % 256, c \div 256>>
                   ELSE <<c \div 256, c % 256>>
    IN  (IF order = "little" THEN <<255, 254>> ELSE <<254, 255>>)
        \o JoinBytes([i \in 1..Len(text) |-> unit(text[i])])

\* the 'Ns' field of struct.pack: cut or NUL-padded to n bytes
pack_s(n, bytes) == [i \in 1..n |-> IF i <= Len(bytes) THEN bytes[i] ELSE 0]

\* struct.pack('16s8sB31xB7x', pair, passcode.encode('utf-16')[2:], 0x80, 0xc0)
rawparam(passcode, pair, order) ==
    LET code == utf16_encode(passcode, order)
    IN  pack_s(16, pair) \o pack_s(8, SubSeq(code, 3, Len(code)))
        \o <<128>> \o [i \in 1..31 |-> 0] \o <<192>> \o [i \in 1..7 |-> 0]

\* struct.unpack('16L', rawparam): native size and byte order of unsigned
\* long; with an 8-byte long the 64 bytes are too few for 16 items
unpack_16L(raw, platform) ==
    IF 16 * platform.long # Len(raw) THEN Raise("struct.error")
    ELSE Ok([i \in 1..16 |->
               LET b == SubSeq(raw, 4 * i - 3, 4 * i)
               IN  IF platform.order = "little"
                   THEN UInt32(b[4] * 256 + b[3], b[2] * 256 + b[1])
                   ELSE UInt32(b[1] * 256 + b[2], b[3] * 256 + b[4])])

\* a += 0x67452301 ... d += 0x10325476, then
\*   hashcode = struct.pack('<4L', a.real, b.real, c.real, d.real)
\*   return ''.join(['%02X' % ord(x) for x in hashcode])
\* as character codes
hash_hex(st) ==
    LET digit(n) == IF n < 10 THEN 48 + n ELSE 55 + n
        words == <<UInt32_add(st.a, hash_init.a), UInt32_add(st.b, hash_init.b),
                   UInt32_add(st.c, hash_init.c), UInt32_add(st.d, hash_init.d)>>
        hashcode == JoinBytes([i \in 1..4 |->
                        <<words[i][2] % 256, words[i][2] \div 256,
                          words[i][1] % 256, words[i][1] \div 256>>])
    IN  JoinBytes([i \in 1..16 |->
                     <<digit(hashcode[i] \div 16), digit(hashcode[i] % 16)>>])

-----------------------------------------------------------------------------
(* Bounds and input samples                                                *)

\* how many times a tree may be wrapped into an enclosing Container node
MaxDepth == 1

\* how many children the Container being built may hold
MaxChildren == 2

\* how many trailing bytes a received buffer may be short of
MaxDrop == 2

tag_zzzz == <<122, 122, 122, 122>>

tag_abcd == <<97, 98, 99, 100>>

Neg(a) == BigSub(<<0, 0, 0>>, a)

Pred(a) == BigSub(a, <<0, 0, 1>>)

\* the bounds of the eight kinds, their neighbours, and a few inner values
IntSamples ==
    {FromInt(0), FromInt(1), FromInt(-1), FromInt(200)}
    \cup UNION {{Shl1(n), Pred(Shl1(n)), Neg(Shl1(n)), Pred(Neg(Shl1(n)))} :
                  n \in {7, 8, 15, 16, 31, 32, 63, 64}}

MultiSamples ==
    { <<>>, <<FromInt(-1), FromInt(1)>>, <<Pred(Shl1(32)), FromInt(1)>>,
      <<FromInt(7)>>, <<Shl1(31)>> }

\* 2010-03-11 11:31:58 and 1969-12-31 09:00:00 on the local clock, and an
\* instant in 2038 whose timestamp does not fit in four bytes
DateSamples ==
    { PyNone, datetime(FromInt(1268307118), 0), datetime(FromInt(1268307118), 500000),
      datetime(FromInt(-54000), 0), datetime(Shl1(31), 0) }

VersionSamples == { <<3, 0, 1, 0>>, <<2, 0, 6, 0>>, <<1, 2, 3, 4>>, <<256, 0, 0, 0>> }

text_Foo == <<70, 111, 111>>

\* u"Zem’s"
text_Zems == <<90, 101, 109, 8217, 115>>

\* the bytes of Node('abcd', Binary('')), and the same followed by "xyz"
text_node == tag_abcd \o <<0, 0, 0, 0>>

text_node_tail == text_node \o <<120, 121, 122>>

\* the bytes of a header for msup (a UByte) that declares no payload
text_msup0 == tag_msup \o <<0, 0, 0, 0>>

TextSamples ==
    { <<>>, text_Foo, text_Zems, <<233>>, <<128512>>, text_node, text_node_tail,
      text_msup0 }

BytesSamples == { <<>>, <<0, 1>>, <<255, 254>>, text_Foo }

\* x.val of a construction known to succeed
Value(r) == r.val

LeafSamples ==
    <<Value(Numeric_init("UByte", FromInt(255))),
     Value(Numeric_init("UByte", FromInt(1))),
     Value(Numeric_init("UInt", FromInt(200))),
     Value(Numeric_init("UInt", FromInt(5))),
     Value(Numeric_init("ULong", Shl1(63))),
     Value(Numeric_init("Byte", FromInt(-1))),
     Value(Numeric_init("Short", FromInt(-32768))),
     Value(Numeric_init("UShort", FromInt(65535))),
     Value(Numeric_init("Int", FromInt(-1))),
     Value(Numeric_init("Long", Neg(Shl1(63)))),
     Value(MultiNumeric_init("MultiUInt", <<Pred(Shl1(32)), FromInt(1)>>)),
     Value(MultiNumeric_init("MultiInt", <<FromInt(-1), FromInt(1)>>)),
     Version_init(<<3, 0, 1, 0>>),
     Version_init(<<256, 0, 0, 0>>),
     DateTime_init(PyNone),
     DateTime_init(datetime(FromInt(1268307118), 0)),
     DateTime_init(datetime(FromInt(1268307118), 500000)),
     DateTime_init(datetime(Shl1(31), 0)),
     Value(String_init(text_Zems, "utf-8")),
     Value(String_init(<<233>>, "latin-1")),
     Binary_init(<<0, 1>>),
     Binary_init(<<>>),
     Container_init(Value(String_init(text_Foo, "utf-8")), TRUE),
     Container_init(Value(String_init(<<>>, "utf-8")), TRUE),
     Container_init(Value(String_init(text_node, "utf-8")), TRUE),
     Container_init(Value(String_init(text_node_tail, "utf-8")), TRUE),
     Container_init(Value(String_init(text_msup0, "utf-8")), TRUE),
     Container_init(<<>>, FALSE)>>

\* the tags a sampled leaf is put under: the tag registered for its class,
\* a tag registered for another class, an unregistered tag and a 2-byte tag
RegisteredTag(cls) ==
    CASE cls = "UByte" -> tag_msup   [] cls = "UInt" -> tag_mstt
      [] cls = "ULong" -> tag_msma   [] cls = "Byte" -> tag_asrv
      [] cls = "UShort" -> tag_asbt  [] cls = "Short" -> tag_astn
      [] cls = "Int" -> tag_asdt     [] cls = "Long" -> tag_meds
      [] cls = "MultiUInt" -> tag_canp [] cls = "MultiInt" -> tag_caps
      [] cls = "Version" -> tag_mpro [] cls = "DateTime" -> tag_mstc
      [] cls = "String" -> tag_minm  [] cls = "Binary" -> tag_ceWM
      [] cls = "Container" -> tag_mlit

TagsFor(leaf) ==
    {RegisteredTag(leaf.cls)}
    \cup (IF leaf.cls \in {"UInt", "UByte", "Binary", "String"}
          THEN {tag_msup, tag_mstt, tag_zzzz, <<109, 115>>}
          ELSE {})

\* the nodes appended as further children
ChildSamples ==
    << Node_init(tag_msup, Value(Numeric_init("UByte", FromInt(1)))),
       Node_init(tag_minm, Value(String_init(text_Foo, "utf-8"))) >>

WrapTags == {tag_msrv, tag_mlcl}

\* the tree of the interface test: msrv[mstt = 200, mlcl[minm = "Zem's"]]
InterfaceTree ==
    Node_init(tag_msrv, Container_init(
        << Node_init(tag_mstt, Value(Numeric_init("UInt", FromInt(200)))),
           Node_init(tag_mlcl, Container_init(
               << Node_init(tag_minm, Value(String_init(text_Zems, "utf-8"))) >>,
               FALSE)) >>, FALSE))

\* header fields and payloads of received buffers
RecvTags == {tag_msup, tag_minm, tag_mlit, tag_canp, tag_zzzz}

SizeSamples ==
    {FromInt(n) : n \in {0, 1, 3, 4, 5, 8, -1, -8, -9}}
    \cup {Pred(Shl1(31)), Neg(Shl1(31))}

PayloadSamples ==
    { <<>>, <<255>>, text_Foo, <<0, 0, 0, 5>>, <<72, 101, 108, 108, 111>>,
      <<255, 255, 255, 255, 0, 0, 0, 1>>, <<255, 254, 0>> }

\* buffers handed straight to a leaf class's deserialize
RawSamples ==
    { <<>>, <<255>>, <<128, 0>>, <<255, 255, 157, 144>>, <<75, 153, 69, 46>>,
      <<0, 3, 0, 1>>, <<255, 255, 255, 255, 0, 0, 0, 1>>,
      <<255, 255, 255, 255, 0, 0>>, <<0, 0, 0, 1, 2>>, <<1, 2, 3>>,
      <<128, 0, 0, 0, 0, 0, 0, 0>>, <<255, 254>>, text_Foo }

LeafClasses ==
    NumericNames \cup {"MultiInt", "MultiUInt", "DateTime", "Version", "String", "Binary"}

-----------------------------------------------------------------------------
(* The state: the last operation, its input, the object constructed, the   *)
(* class whose deserialize is applied, the buffer, the decoded value and   *)
(* the bytes of its re-serialization.                                      *)

\* passcodes read off the remote: '1234', '1235' and the five-character
\* '12345'
PasscodeSamples == {<<49, 50, 51, 52>>, <<49, 50, 51, 53>>, <<49, 50, 51, 52, 53>>}

\* pairing ids from discovery: '0000000000000001', '0000000000000002' and
\* the 17-character '00000000000000012'
PairSamples ==
    {[i \in 1..16 |-> IF i = 16 THEN 49 ELSE 48],
     [i \in 1..16 |-> IF i = 16 THEN 50 ELSE 48],
     [i \in 1..17 |-> IF i = 16 THEN 49 ELSE IF i = 17 THEN 50 ELSE 48]}

\* the native size (bytes) and byte order of unsigned long on the build
\* that runs the interpreter
Platforms == {[long |-> 4, order |-> "little"], [long |-> 4, order |-> "big"],
              [long |-> 8, order |-> "little"], [long |-> 8, order |-> "big"]}

\* a pairing reply: msrv holding cmpg = guid
PairReply(guid) ==
    Node_serialize(Node_init(tag_msrv,
        Container_init(<<Node_init(tag_cmpg, Numeric_init("ULong", FromInt(guid)).val)>>,
                       FALSE))).val

\* what urllib2.urlopen(...).read() gives: a reply with a cmpg child, a
\* reply with two, a reply without one, a cut reply, or a failed exchange
ResponseSamples ==
    <<Ok(PairReply(1)), Ok(PairReply(2)),
     Ok(Node_serialize(Node_init(tag_msrv,
            Container_init(<<Node_init(tag_cmpg, Numeric_init("ULong", FromInt(7)).val),
                             Node_init(tag_cmpg, Numeric_init("ULong", FromInt(9)).val)>>,
                           FALSE))).val),
     Ok(Node_serialize(Node_init(tag_msrv, Container_init(<<>>, FALSE))).val),
     Ok(SubSeq(PairReply(1), 1, 12)),
     Raise("URLError")>>

Unset == Raise("unset")

\* no generate_code call is running
NoFrame == [n |-> 0 - 1]

Init ==
    /\ op = "init"
    /\ arg = NoValue
    /\ obj = Unset
    /\ how = "None"
    /\ buf = Unset
    /\ out = Unset
    /\ again = Unset
    /\ frame = NoFrame
    /\ prev = Unset

\* the class whose deserialize belongs to a constructed object
HowOf(o) == IF o.ok THEN o.val.cls ELSE "None"

NewNumeric ==
    /\ op = "init"
    /\ \E cls \in NumericNames, v \in IntSamples :
         /\ arg' = [cls |-> cls, value |-> v]
         /\ obj' = Numeric_init(cls, v)
    /\ how' = HowOf(obj')
    /\ op' = "construct"
    /\ UNCHANGED <<frame, prev, buf, out, again>>

NewMulti ==
    /\ op = "init"
    /\ \E cls \in {"MultiInt", "MultiUInt"}, v \in MultiSamples :
         /\ arg' = [cls |-> cls, value |-> v]
         /\ obj' = MultiNumeric_init(cls, v)
    /\ how' = HowOf(obj')
    /\ op' = "construct"
    /\ UNCHANGED <<frame, prev, buf, out, again>>

NewDateTime ==
    /\ op = "init"
    /\ \E v \in DateSamples :
         /\ arg' = [cls |-> "DateTime", value |-> v]
         /\ obj' = Ok(DateTime_init(v))
    /\ how' = HowOf(obj')
    /\ op' = "construct"
    /\ UNCHANGED <<frame, prev, buf, out, again>>

NewVersion ==
    /\ op = "init"
    /\ \E v \in VersionSamples :
         /\ arg' = [cls |-> "Version", value |-> v]
         /\ obj' = Ok(Version_init(v))
    /\ how' = HowOf(obj')
    /\ op' = "construct"
    /\ UNCHANGED <<frame, prev, buf, out, again>>

NewString ==
    /\ op = "init"
    /\ \E v \in TextSamples, codec \in {"utf-8", "latin-1"} :
         /\ arg' = [cls |-> "String", value |-> v, codec |-> codec]
         /\ obj' = String_init(v, codec)
    /\ how' = HowOf(obj')
    /\ op' = "construct"
    /\ UNCHANGED <<frame, prev, buf, out, again>>

NewBinary ==
    /\ op = "init"
    /\ \E v \in BytesSamples :
         /\ arg' = [cls |-> "Binary", value |-> v]
         /\ obj' = Ok(Binary_init(v))
    /\ how' = HowOf(obj')
    /\ op' = "construct"
    /\ UNCHANGED <<frame, prev, buf, out, again>>

\* Node(tag, value) on a sampled value, or the tree of the interface test
NewNode ==
    /\ op = "init"
    /\ \/ \E i \in 1..Len(LeafSamples) : \E tag \in TagsFor(LeafSamples[i]) :
            /\ arg' = [cls |-> "Node", tag |-> tag, value |-> LeafSamples[i]]
            /\ obj' = Ok(Node_init(tag, LeafSamples[i]))
       \/ /\ arg' = [cls |-> "Node", tag |-> InterfaceTree.tag,
                     value |-> InterfaceTree.value]
          /\ obj' = Ok(InterfaceTree)
    /\ how' = "Node"
    /\ op' = "construct"
    /\ UNCHANGED <<frame, prev, buf, out, again>>

\* how many Containers of Nodes enclose the innermost node
RECURSIVE Depth(_)
Depth(x) ==
    IF x.cls = "Node" /\ x.value.cls = "Container" /\ ~x.value.text
       /\ x.value.value # <<>>
    THEN 1 + Depth(x.value.value[1])
    ELSE 0

\* Node(tag, Container([obj])) around the Node built so far
Wrap ==
    /\ op = "construct" /\ obj.ok /\ obj.val.cls = "Node"
    /\ Depth(obj.val) < MaxDepth
    /\ \E tag \in WrapTags :
         LET c == Container_init(<<obj.val>>, FALSE)
         IN  /\ arg' = [cls |-> "Node", tag |-> tag, value |-> c]
             /\ obj' = Ok(Node_init(tag, c))
    /\ UNCHANGED <<frame, prev, op, how, buf, out, again>>

\* the same Node rebuilt with one more child in its Container
AppendChild ==
    /\ op = "construct" /\ obj.ok /\ obj.val.cls = "Node"
    /\ obj.val.value.cls = "Container" /\ ~obj.val.value.text
    /\ Len(obj.val.value.value) >= 1
    /\ Len(obj.val.value.value) < MaxChildren
    /\ arg.cls = "Node"
    /\ \E i \in 1..Len(ChildSamples) :
         LET c == Container_init(Append(obj.val.value.value, ChildSamples[i]), FALSE)
         IN  /\ arg' = [cls |-> "Node", tag |-> obj.val.tag, value |-> c]
             /\ obj' = Ok(Node_init(obj.val.tag, c))
    /\ UNCHANGED <<frame, prev, op, how, buf, out, again>>

\* the Container of a Node, taken as the top-level value
TakeContainer ==
    /\ op = "construct" /\ obj.ok /\ obj.val.cls = "Node"
    /\ obj.val.value.cls = "Container"
    /\ arg' = [cls |-> "Container", value |-> obj.val.value.value]
    /\ obj' = Ok(obj.val.value)
    /\ how' = "Container"
    /\ UNCHANGED <<frame, prev, op, buf, out, again>>

\* build_node on a literal description
BuildLits ==
    << Lit("int", FromInt(200)), Lit("int", FromInt(256)),
       Lit("call", Lit("int", FromInt(200))),
       Lit("tuple", <<2, 0, 6, 0>>), Lit("bytes", text_Foo), Lit("bytes", <<>>),
       Lit("text", text_Zems), Lit("datetime", datetime(FromInt(1268307118), 0)) >>

\* the kinds of literal that each class is given in the sampled pairs
Fits(cls, lit) ==
    LET k == IF lit.kind = "call" THEN lit.v.kind ELSE lit.kind
    IN  CASE cls \in NumericNames -> k \in {"int", "bytes", "text", "tuple", "datetime"}
          [] cls \in {"MultiInt", "MultiUInt"} -> k \in {"tuple", "int"}
          [] cls = "DateTime" -> k = "datetime"
          [] cls = "Version" -> k = "tuple"
          [] cls \in {"String", "Container"} -> k \in {"text", "bytes"}
          [] cls = "Binary" -> k = "bytes"
          [] OTHER -> TRUE

BuildTags ==
    {tag_mstt, tag_msup, tag_mpro, tag_mlit, tag_ceWM, tag_minm, tag_mstc, tag_canp,
     tag_zzzz}

ListTags == {tag_msrv, tag_zzzz}

\* pairs put in front of the pair built before: one that builds, one that
\* fails the range check of UByte
SiblingPairs ==
    <<Pair(tag_mstt, Lit("int", FromInt(200))), Pair(tag_msup, Lit("int", FromInt(256)))>>

RECURSIVE LitDepth(_)
LitDepth(pair) ==
    IF pair.lit.kind = "list" /\ pair.lit.v # <<>>
    THEN 1 + LitDepth(pair.lit.v[Len(pair.lit.v)])
    ELSE 0

Build ==
    /\ op = "init"
    /\ \E t \in BuildTags, i \in 1..Len(BuildLits) :
         /\ Fits(TagType(t), BuildLits[i])
         /\ arg' = [cls |-> "pair", pair |-> Pair(t, BuildLits[i])]
         /\ obj' = build_node(Pair(t, BuildLits[i]))
    /\ op' = "build"
    /\ how' = "Node"
    /\ UNCHANGED <<frame, prev, buf, out, again>>

\* build_node on a list literal that holds the pair built before, alone or
\* after a sibling
BuildList ==
    /\ op = "build"
    /\ LitDepth(arg.pair) < MaxDepth + 1
    /\ \E t \in ListTags :
         \E n \in 0..Len(SiblingPairs) :
            LET items == IF n = 0 THEN <<arg.pair>> ELSE <<SiblingPairs[n], arg.pair>>
                p     == Pair(t, Lit("list", items))
            IN  arg' = [cls |-> "pair", pair |-> p] /\ obj' = build_node(p)
    /\ UNCHANGED <<frame, prev, op, how, buf, out, again>>

-----------------------------------------------------------------------------
(* Serialization, deserialization, lookup                                  *)

Serialize ==
    /\ op \in {"construct", "build"} /\ obj.ok
    /\ op' = "serialize"
    /\ buf' = serialize(obj.val)
    /\ UNCHANGED <<frame, prev, arg, obj, how, out, again>>

\* cls.deserialize(buf) with the class of the object the bytes came from, or
\* the class the buffer was received for
Deserialize ==
    /\ op \in {"serialize", "receive"} /\ buf.ok
    /\ op' = "deserialize"
    /\ out' = deserialize(how, buf.val)
    /\ UNCHANGED <<frame, prev, arg, obj, how, buf, again>>

Reserialize ==
    /\ op = "deserialize" /\ out.ok
    /\ op' = "reserialize"
    /\ again' = serialize(out.val)
    /\ UNCHANGED <<frame, prev, arg, obj, how, buf, out>>

\* the last n - drop bytes cut off, and the short prefixes of a header
Keeps(full) ==
    {Len(full) - d : d \in 0..(IF MaxDrop < Len(full) THEN MaxDrop ELSE Len(full))}
    \cup {0, 4, 7, 8}

\* a buffer arrives: a header (tag, declared size) and a payload, possibly cut
Receive ==
    /\ op = "init"
    /\ \E tag \in RecvTags, size \in SizeSamples, payload \in PayloadSamples :
         LET full == tag \o struct_pack(4, TRUE, size).val \o payload
         IN  \E keep \in Keeps(full) :
               /\ arg' = [cls |-> "buffer", tag |-> tag, size |-> size,
                          payload |-> payload, keep |-> keep]
               /\ buf' = Ok(SubSeq(full, 1, keep))
    /\ how' \in {"Node", "Container"}
    /\ op' = "receive"
    /\ UNCHANGED <<frame, prev, obj, out, again>>

\* bytes handed to the deserialize of a leaf class
ReceiveRaw ==
    /\ op = "init"
    /\ \E bytes \in RawSamples :
         /\ arg' = [cls |-> "raw", value |-> bytes]
         /\ buf' = Ok(bytes)
    /\ how' \in LeafClasses
    /\ op' = "receive"
    /\ UNCHANGED <<frame, prev, obj, out, again>>

LookupTags == {tag_mstt, tag_mlcl, tag_msup, tag_minm, tag_zzzz}

\* node.<name> on a constructed Node
GetAttr ==
    /\ op \in {"construct", "build"} /\ obj.ok /\ obj.val.cls = "Node"
    /\ \E name \in LookupTags :
         /\ arg' = [cls |-> "getattr", name |-> name]
         /\ out' = Node_getattr(obj.val, name)
    /\ op' = "getattr"
    /\ UNCHANGED <<frame, prev, obj, how, buf, again>>

\* tag in container, on a constructed Container
Contains ==
    /\ op = "construct" /\ obj.ok /\ obj.val.cls = "Container"
    /\ \E name \in LookupTags :
         /\ arg' = [cls |-> "contains", name |-> name]
         /\ out' = Container_contains(obj.val, name)
    /\ op' = "contains"
    /\ UNCHANGED <<frame, prev, obj, how, buf, again>>

\* TouchRemote.__init__
TouchRemote_init(name, address, port, pairid) ==
    [cls |-> "TouchRemote", name |-> name, address |-> address, port |-> port,
     pairid |-> pairid]

\* the frame generate_code(passcode, pair) starts with: param unpacked,
\* a..d set, no statement pair done yet (or the struct.error of the unpack)
generate_code_enter(passcode, pair, platform) ==
    LET param == unpack_16L(rawparam(passcode, pair, platform.order), platform)
    IN  IF param.ok THEN Ok([n |-> 0, param |-> param.val, st |-> hash_init])
        ELSE param

\* generate_code(passcode, pair) is called, first or after an earlier call
\* of the same process (so on the same build)
GenerateCode ==
    /\ op \in {"init", "generate_code"}
    /\ \E passcode \in PasscodeSamples, pair \in PairSamples, platform \in Platforms :
         /\ arg.cls = "generate_code" => platform = arg.platform
         /\ arg' = [cls |-> "generate_code", passcode |-> passcode, pair |-> pair,
                    platform |-> platform]
         /\ LET enter == generate_code_enter(passcode, pair, platform)
            IN  IF enter.ok
                THEN frame' = enter.val /\ out' = Unset /\ op' = "hashing"
                ELSE frame' = NoFrame /\ out' = enter /\ op' = "generate_code"
    /\ prev' = IF op = "generate_code"
               THEN Ok([passcode |-> arg.passcode, pair |-> arg.pair,
                        platform |-> arg.platform, code |-> out])
               ELSE prev
    /\ UNCHANGED <<obj, how, buf, again>>

\* one statement pair of lines 155-286
HashStep ==
    /\ op = "hashing" /\ frame.n < Len(hash_steps)
    /\ frame' = [frame EXCEPT !.n = frame.n + 1,
                              !.st = hash_step(frame.st, frame.param,
                                               hash_steps[frame.n + 1])]
    /\ UNCHANGED <<op, arg, obj, how, buf, out, again, prev>>

\* generate_code returns the joined hex text
HashReturn ==
    /\ op = "hashing" /\ frame.n = Len(hash_steps) /\ arg.cls = "generate_code"
    /\ out' = Ok(hash_hex(frame.st))
    /\ op' = "generate_code"
    /\ frame' = NoFrame
    /\ UNCHANGED <<arg, obj, how, buf, again, prev>>

\* a TouchRemote for a discovered remote
NewRemote ==
    /\ op = "init"
    /\ \E pairid \in PairSamples :
         obj' = Ok(TouchRemote_init(<<82>>, <<49, 48, 46, 48, 46, 48, 46, 50>>,
                                    FromInt(1024), pairid))
    /\ how' = "TouchRemote"
    /\ op' = "remote"
    /\ UNCHANGED <<arg, buf, out, again, frame, prev>>

\* remote.pair(passcode, servicename) up to the call of generate_code, which
\* is outside the try
PairCall ==
    /\ op = "remote"
    /\ \E passcode \in PasscodeSamples, platform \in Platforms :
         /\ arg' = [cls |-> "TouchRemote.pair", passcode |-> passcode, servicename |-> <<83>>,
                    platform |-> platform]
         /\ LET enter == generate_code_enter(passcode, obj.val.pairid, platform)
            IN  IF enter.ok
                THEN frame' = enter.val /\ out' = Unset /\ op' = "hashing"
                ELSE frame' = NoFrame /\ out' = enter /\ op' = "pair"
    /\ UNCHANGED <<obj, how, buf, again, prev>>

\* the try block of pair(): the request goes out with the hashcode, the
\* reply is read, and dacp.NodeValue.deserialize is looked up; dacp is bound
\* nowhere in the module, so the lookup raises NameError, which the except
\* clause logs and raises again
TouchRemote_pair_try(self, hashcode, servicename, response) ==
    IF ~response.ok THEN response ELSE Raise("NameError")

PairRequest ==
    /\ op = "hashing" /\ frame.n = Len(hash_steps) /\ arg.cls = "TouchRemote.pair"
    /\ \E i \in 1..Len(ResponseSamples) :
         LET response == ResponseSamples[i] IN
         /\ buf' = response
         /\ again' = Ok([address |-> obj.val.address, port |-> obj.val.port,
                         pairingcode |-> hash_hex(frame.st),
                         servicename |-> arg.servicename])
         /\ out' = TouchRemote_pair_try(obj.val, hash_hex(frame.st),
                                        arg.servicename, response)
    /\ op' = "pair"
    /\ frame' = NoFrame
    /\ UNCHANGED <<arg, obj, how, prev>>

Next ==
    \/ NewNumeric \/ NewMulti \/ NewDateTime \/ NewVersion \/ NewString \/ NewBinary
    \/ NewNode \/ Wrap \/ AppendChild \/ TakeContainer
    \/ Build \/ BuildList
    \/ Serialize \/ Deserialize \/ Reserialize
    \/ Receive \/ ReceiveRaw
    \/ GetAttr \/ Contains
    \/ GenerateCode \/ HashStep \/ HashReturn
    \/ NewRemote \/ PairCall \/ PairRequest

Spec == Init /\ [][Next]_vars

-----------------------------------------------------------------------------
(* Properties                                                              *)

\* the bounds of a kind as the range rule states them: unsigned
\* [0, 2^(8*width) - 1], signed [-2^(8*width-1), 2^(8*width-1) - 1]
RangeLow(cls) ==
    IF ClassSigned(cls) THEN Neg(Shl1(8 * ClassLength(cls) - 1)) ELSE FromInt(0)

RangeHigh(cls) ==
    IF ClassSigned(cls) THEN Pred(Shl1(8 * ClassLength(cls) - 1))
    ELSE Pred(Shl1(8 * ClassLength(cls)))

InRange(cls, v) == ~BigLt(v, RangeLow(cls)) /\ ~BigLt(RangeHigh(cls), v)

\* bytes is the width-byte big-endian two's complement form of v
IsBigEndianOf(bytes, width, v) ==
    /\ Len(bytes) = width
    /\ \/ UnsignedOf(bytes) = v
       \/ BigLt(v, FromInt(0)) /\ UnsignedOf(bytes) = BigAdd(v, Shl1(8 * width))

\* C3: for each of the eight scalar kinds and every integer within the bounds
\* of the kind, construction succeeds, serialize yields exactly `width`
\* big-endian bytes, and deserialize of those bytes equals the scalar.
C3_ScalarRoundTrip ==
    /\ (op = "construct" /\ arg.cls \in NumericNames /\ InRange(arg.cls, arg.value))
         => obj.ok /\ obj.val.cls = arg.cls /\ obj.val.value = arg.value
    /\ (op \in {"serialize", "deserialize", "reserialize"} /\ obj.ok
        /\ obj.val.cls \in NumericNames)
         => /\ buf.ok
            /\ IsBigEndianOf(buf.val, ClassLength(obj.val.cls), obj.val.value)
    /\ (op \in {"deserialize", "reserialize"} /\ obj.ok /\ obj.val.cls \in NumericNames)
         => /\ out.ok
            /\ out.val.cls = obj.val.cls
            /\ Eq(out.val, obj.val) /\ Eq(obj.val, out.val)

C3_Witness ==
    /\ op = "deserialize" /\ obj.ok /\ obj.val.cls = "Long"
    /\ obj.val.value = Neg(Shl1(63))
    /\ buf.ok /\ buf.val = <<128, 0, 0, 0, 0, 0, 0, 0>>
    /\ out.ok

\* every numeric object inside x lies within the bounds of its kind
RECURSIVE AllInRange(_)
AllInRange(x) ==
    CASE x.cls \in NumericNames -> InRange(x.cls, x.value)
      [] x.cls \in {"MultiInt", "MultiUInt"} ->
           \A i \in 1..Len(x.value) : AllInRange(x.value[i])
      [] x.cls = "Node" -> AllInRange(x.value)
      [] x.cls = "Container" /\ ~x.text ->
           \A i \in 1..Len(x.value) : AllInRange(x.value[i])
      [] OTHER -> TRUE

\* C4: constructing a scalar from an integer outside the bounds of its kind
\* raises ValueError and yields no object; every scalar object that exists,
\* constructed, built or decoded, alone or inside a tree, lies within bounds.
C4_RangeCheck ==
    /\ (op = "construct" /\ arg.cls \in NumericNames /\ ~InRange(arg.cls, arg.value))
         => ~obj.ok /\ obj.err = "ValueError"
    /\ obj.ok => AllInRange(obj.val)
    /\ (op \in {"deserialize", "reserialize"} /\ out.ok) => AllInRange(out.val)

C4_Witness ==
    /\ op = "construct" /\ arg.cls = "Byte" /\ arg.value = FromInt(128)
    /\ ~obj.ok /\ obj.err = "ValueError"

\* the signed 32-bit length field of a buffer of at least 8 bytes, read as
\* the big-endian two's complement number of bytes 5..8
DeclaredLength(bytes) ==
    IF bytes[5] < 128 THEN UnsignedOf(SubSeq(bytes, 5, 8))
    ELSE BigSub(UnsignedOf(SubSeq(bytes, 5, 8)), Shl1(32))

\* the buffer holds a whole header and at least the declared number (>= 0)
\* of payload bytes
HasDeclaredPayload(bytes) ==
    /\ Len(bytes) >= 8
    /\ ~BigLt(DeclaredLength(bytes), FromInt(0))
    /\ ~BigLt(FromInt(Len(bytes) - 8), DeclaredLength(bytes))

\* C5: Node.deserialize of a buffer with a whole 8-byte header, an
\* unregistered tag and at least the declared number of payload bytes does
\* not raise: it returns Node(tag, Binary(payload)), payload being exactly
\* the declared number of bytes after the header.
C5_UnknownTagDecode ==
    (op \in {"deserialize", "reserialize"} /\ how = "Node"
     /\ HasDeclaredPayload(buf.val) /\ TagType(SubSeq(buf.val, 1, 4)) = "KeyError")
      => /\ out.ok
         /\ out.val.cls = "Node"
         /\ out.val.tag = SubSeq(buf.val, 1, 4)
         /\ out.val.value.cls = "Binary"
         /\ out.val.value.value
              = SubSeq(buf.val, 9, 8 + ToInt(DeclaredLength(buf.val)))

C5_Witness ==
    /\ op = "deserialize" /\ how = "Node" /\ arg.cls = "buffer"
    /\ arg.tag = tag_zzzz /\ arg.size = FromInt(3)
    /\ buf.val = tag_zzzz \o <<0, 0, 0, 3>> \o <<72, 101, 108, 108>>
    /\ out.ok /\ out.val.value.value = <<72, 101, 108>>

\* C9: Node.deserialize raises ValueError and returns no Node when the
\* buffer has fewer than 8 bytes, when fewer bytes than the declared length
\* follow the header, and whenever the declared length is negative.
C9_Truncation ==
    (op \in {"deserialize", "reserialize"} /\ how = "Node"
     /\ \/ Len(buf.val) < 8
        \/ BigLt(FromInt(Len(buf.val) - 8), DeclaredLength(buf.val))
        \/ BigLt(DeclaredLength(buf.val), FromInt(0)))
      => ~out.ok /\ out.err = "ValueError"

C9_Witness ==
    /\ op = "deserialize" /\ how = "Node" /\ arg.cls = "buffer"
    /\ arg.size = FromInt(5) /\ Len(buf.val) = 12
    /\ ~out.ok /\ out.err = "ValueError"

C9_WitnessNegative ==
    /\ op = "deserialize" /\ how = "Node" /\ arg.cls = "buffer"
    /\ arg.size = FromInt(-9) /\ Len(buf.val) = 16
    /\ ~out.ok /\ out.err = "ValueError"

Sentinel == <<255, 255, 157, 144>>

\* C7 as stated: DateTime(None) serializes to FF FF 9D 90, and
\* DateTime.deserialize of FF FF 9D 90 yields the absent value (None).
C7_SentinelRoundTrip ==
    /\ (op \in {"serialize", "deserialize", "reserialize"} /\ obj.ok
        /\ obj.val.cls = "DateTime" /\ obj.val.value.none)
         => buf.ok /\ buf.val = Sentinel
    /\ (op \in {"deserialize", "reserialize"} /\ how = "DateTime" /\ buf.val = Sentinel)
         => out.ok /\ out.val.value.none

\* C7 amended: DateTime(None) serializes to FF FF 9D 90, and
\* DateTime.deserialize of FF FF 9D 90 yields a DateTime that holds the
\* calendar instant of the timestamp -25200 on the local clock (1969-12-31
\* 09:00:00 in the zone of the tests), never the absent value.
C7_SentinelDecodesToInstant ==
    /\ (op \in {"serialize", "deserialize", "reserialize"} /\ obj.ok
        /\ obj.val.cls = "DateTime" /\ obj.val.value.none)
         => buf.ok /\ buf.val = Sentinel
    /\ (op \in {"deserialize", "reserialize"} /\ how = "DateTime" /\ buf.val = Sentinel)
         => /\ out.ok /\ out.val.cls = "DateTime"
            /\ ~out.val.value.none
            /\ out.val.value.loc = FromInt(-54000)
            /\ out.val.value.us = 0

C7_Witness ==
    /\ op = "deserialize" /\ how = "DateTime"
    /\ obj.ok /\ obj.val.cls = "DateTime" /\ obj.val.value.none
    /\ buf.ok /\ buf.val = Sentinel
    /\ out.ok

\* C8 as stated: on a Node whose value is a list-form Container, looking up a
\* tag that no immediate child carries raises AttributeError (never an empty
\* list); looking up a present tag returns, in child order, the unwrapped
\* value of each matching leaf child and the child Node itself for each
\* matching Container-valued child.
C8_ChildLookup ==
    (op = "getattr" /\ obj.val.value.cls = "Container" /\ ~obj.val.value.text)
      => LET found == SelectTag(obj.val.value.value, arg.name)
         IN  IF found = <<>>
             THEN ~out.ok /\ out.err = "AttributeError"
             ELSE /\ out.ok /\ Len(out.val) = Len(found)
                  /\ \A i \in 1..Len(found) :
                       IF found[i].value.cls = "Container"
                       THEN out.val[i].child /\ out.val[i].item = found[i]
                       ELSE ~out.val[i].child /\ out.val[i].item = found[i].value

\* C10 as stated: MultiInt/MultiUInt.deserialize of a buffer whose length is
\* a multiple of 4 returns len/4 elements in buffer order; for any other
\* length it fails with a format error (struct.error) instead of returning a
\* shorter array.
C10_MultiDecode ==
    (op = "deserialize" /\ arg.cls = "raw" /\ how \in {"MultiInt", "MultiUInt"})
      => IF Len(buf.val) % 4 = 0
         THEN /\ out.ok /\ Len(out.val.value) = Len(buf.val) \div 4
              /\ \A i \in 1..Len(out.val.value) :
                   Numeric_serialize(out.val.value[i])
                     = Ok(SubSeq(buf.val, 4 * i - 3, 4 * i))
         ELSE ~out.ok /\ out.err = "struct.error"

\* the literal that build_node works on, after calling a callable
LitValue(pair) == IF pair.lit.kind = "call" THEN pair.lit.v ELSE pair.lit

\* the pair's tag, or the tag of a pair nested in the list literal of a
\* Container tag at any depth, is absent from the registry
RECURSIVE HasUnknownTag(_)
HasUnknownTag(pair) ==
    \/ TagType(pair.tag) = "KeyError"
    \/ /\ TagType(pair.tag) = "Container" /\ LitValue(pair).kind = "list"
       /\ \E i \in 1..Len(LitValue(pair).v) : HasUnknownTag(LitValue(pair).v[i])

\* in build order, every pair in front of the first unknown tag builds
RECURSIVE UnknownTagIsFirstFailure(_)
UnknownTagIsFirstFailure(pair) ==
    \/ TagType(pair.tag) = "KeyError"
    \/ /\ HasUnknownTag(pair)
       /\ LET items == LitValue(pair).v
              k     == CHOOSE i \in 1..Len(items) :
                         /\ HasUnknownTag(items[i])
                         /\ \A j \in 1..(i - 1) : ~HasUnknownTag(items[j])
          IN  /\ \A j \in 1..(k - 1) : build_node(items[j]).ok
              /\ UnknownTagIsFirstFailure(items[k])

\* C6 as stated: build_node fails with UnknownTagError whenever the tag of
\* the pair, or of any pair nested at any depth inside a Container literal,
\* is absent from the registry.
C6_StrictUnknownTagBuild ==
    (op = "build" /\ HasUnknownTag(arg.pair))
      => ~obj.ok /\ obj.err = "UnknownTagError"

\* C6 amended: when the tag of the pair, or of any pair nested at any depth
\* inside a Container literal, is absent from the registry, build_node never
\* returns a tree (no Binary substitute, no partial tree); it fails with
\* UnknownTagError provided every pair in front of the first unknown tag, in
\* build order, builds, and otherwise with the error of that earlier pair.
C6_UnknownTagNeverBuilds ==
    (op = "build" /\ HasUnknownTag(arg.pair))
      => /\ ~obj.ok
         /\ UnknownTagIsFirstFailure(arg.pair) => obj.err = "UnknownTagError"
         /\ ~UnknownTagIsFirstFailure(arg.pair) => obj.err # "UnknownTagError"

C6_Witness ==
    /\ op = "build" /\ TagType(arg.pair.tag) = "Container"
    /\ LitDepth(arg.pair) = 2
    /\ HasUnknownTag(arg.pair) /\ UnknownTagIsFirstFailure(arg.pair)
    /\ Len(arg.pair.lit.v) = 2
    /\ ~obj.ok /\ obj.err = "UnknownTagError"

\* the class Node.deserialize decodes the payload of a tag with
DecodedClass(tag) == IF TagType(tag) = "KeyError" THEN "Binary" ELSE TagType(tag)

\* the timestamp a DateTime is encoded as
TimestampOf(value) == IF value.none THEN FromInt(-25200) ELSE mktime(value)

\* a tree whose parts are what the decoder expects: every Node holds a value
\* of the type registered for its tag (Binary for an unregistered tag), every
\* String uses utf-8, every Version component is a byte, the timestamp of
\* every DateTime fits in four bytes and is the one its local time maps back
\* to, and the encoded text of a text-form Container is empty or is rejected
\* as a Node by Node.deserialize (ValueError), so that it is read back as text
RECURSIVE WellTyped(_)
WellTyped(x) ==
    CASE x.cls = "Node" ->
           /\ Len(x.tag) <= 4
           /\ x.value.cls = DecodedClass(pack4s(x.tag))
           /\ WellTyped(x.value)
      [] x.cls = "Container" /\ ~x.text ->
           \A i \in 1..Len(x.value) : x.value[i].cls = "Node" /\ WellTyped(x.value[i])
      [] x.cls = "Container" /\ x.text ->
           /\ x.value.cls = "String" /\ x.value.codec = "utf-8"
           /\ LET data == String_serialize(x.value)
              IN  /\ data.ok
                  /\ \/ data.val = <<>>
                     \/ LET n == Node_deserialize(data.val)
                        IN  ~n.ok /\ IsValueError(n.err)
      [] x.cls = "String" -> x.codec = "utf-8"
      [] x.cls = "DateTime" ->
           LET t == TimestampOf(x.value)
           IN  /\ ~BigLt(t, Neg(Shl1(31))) /\ BigLt(t, Shl1(31))
               /\ mktime(fromtimestamp(t)) = t
      [] x.cls = "Version" ->
           Len(x.value) = 4 /\ \A i \in 1..4 : x.value[i] \in 0..255
      [] OTHER -> TRUE

\* nothing in the tree is changed by the encoding: tags are exactly four
\* bytes, a DateTime holds a local time that its timestamp maps back to (so
\* not the absent value, and whole seconds), a text-form Container holds a
\* non-empty text
RECURSIVE Lossless(_)
Lossless(x) ==
    CASE x.cls = "Node" -> Len(x.tag) = 4 /\ Lossless(x.value)
      [] x.cls = "Container" /\ ~x.text ->
           \A i \in 1..Len(x.value) : Lossless(x.value[i])
      [] x.cls = "Container" /\ x.text -> x.value.value # <<>>
      [] x.cls = "DateTime" ->
           ~x.value.none /\ fromtimestamp(mktime(x.value)) = x.value
      [] OTHER -> TRUE

IsTree(x) == x.cls \in {"Node", "Container"}

\* C1 as stated: for every constructed tree T, deserializing T.serialize()
\* with the operation of T's own class returns a value equal to T.
C1_TreeRoundTrip ==
    (op \in {"deserialize", "reserialize"} /\ obj.ok /\ IsTree(obj.val))
      => out.ok /\ Eq(out.val, obj.val) /\ Eq(obj.val, out.val)

\* C1 amended: for every constructed tree T in which every Node holds a value
\* of the type registered for its 4-byte tag (Binary for an unregistered
\* tag), every String is utf-8, every Version component is in 0..255, every
\* DateTime holds a local time (not the absent value) that maps to a signed
\* 32-bit timestamp and back to itself, and every text-form Container holds a
\* non-empty text whose encoding Node.deserialize rejects with ValueError, T
\* serializes and deserializing the bytes with the operation of T's own class
\* returns a value equal to T.
C1_WellFormedTreeRoundTrip ==
    (op \in {"serialize", "deserialize", "reserialize"} /\ obj.ok /\ IsTree(obj.val)
     /\ WellTyped(obj.val) /\ Lossless(obj.val))
      => /\ buf.ok
         /\ op # "serialize" =>
              out.ok /\ Eq(out.val, obj.val) /\ Eq(obj.val, out.val)

C1_Witness ==
    /\ op = "deserialize" /\ obj.ok /\ obj.val.cls = "Node"
    /\ WellTyped(obj.val) /\ Lossless(obj.val)
    /\ Depth(obj.val) = 1 /\ Len(obj.val.value.value) = 2
    /\ obj.val.value.value[1].value.cls = "Container"
    /\ obj.val.value.value[1].value.text
    /\ out.ok /\ Eq(out.val, obj.val)

\* C2 as stated: for every constructed tree T,
\* serialize(deserialize(serialize(T))) is byte-for-byte equal to serialize(T).
C2_ReencodeStability ==
    (op \in {"deserialize", "reserialize"} /\ obj.ok /\ IsTree(obj.val))
      => /\ out.ok
         /\ op = "reserialize" => again.ok /\ again.val = buf.val

\* C2 amended: for every constructed tree T in which every Node holds a value
\* of the type registered for its tag (Binary for an unregistered tag), every
\* String is utf-8, every Version component is in 0..255, the timestamp of
\* every DateTime (-25200 for the absent value) fits in a signed 32 bits and
\* is the one its local time maps back to, and the encoded text of every
\* text-form Container is empty or is rejected as a Node by Node.deserialize
\* with ValueError, serialize(deserialize(serialize(T))) is byte-for-byte
\* equal to serialize(T), length fields included.
C2_WellTypedReencodeStability ==
    (op \in {"deserialize", "reserialize"} /\ obj.ok /\ IsTree(obj.val)
     /\ WellTyped(obj.val))
      => /\ out.ok
         /\ op = "reserialize" => again.ok /\ again.val = buf.val

C2_Witness ==
    /\ op = "reserialize" /\ obj.ok /\ obj.val.cls = "Node"
    /\ WellTyped(obj.val) /\ ~Lossless(obj.val)
    /\ Depth(obj.val) = 1
    /\ again.ok /\ again.val = buf.val /\ Len(buf.val) > 16

IsByteQuad(v) == Len(v) = 4 /\ \A i \in 1..4 : v[i] \in 0..255

C12_Membership ==
    (op = "contains")
      => IF obj.val.text
         THEN out.ok /\ out.val = FALSE
         ELSE out.ok
              /\ out.val = (\E i \in 1..Len(obj.val.value) :
                              obj.val.value[i].tag = arg.name)

\* the tree of a pair by direct construction: Node(tag, T(value)) with T the
\* type registered for the tag, a callable's result for a callable, a
\* Container of the children's trees for a list under a Container tag, a
\* Container of String(value) for anything else under a Container tag
RECURSIVE DirectTree(_)
DirectTree(pair) ==
    LET value == LitValue(pair)
        T     == TagType(pair.tag)
    IN  IF T = "Container" /\ value.kind = "list"
        THEN LET kids == [i \in 1..Len(value.v) |-> DirectTree(value.v[i])]
             IN  IF \A i \in 1..Len(kids) : kids[i].ok
                 THEN Ok(Node_init(pair.tag,
                           Container_init([i \in 1..Len(kids) |-> kids[i].val], FALSE)))
                 ELSE Raise("error")
        ELSE IF T = "Container"
        THEN LET s == Construct("String", value)
             IN  IF s.ok
                 THEN Ok(Node_init(pair.tag, Container_init(s.val, TRUE)))
                 ELSE Raise("error")
        ELSE LET v == Construct(T, value)
             IN  IF v.ok THEN Ok(Node_init(pair.tag, v.val)) ELSE Raise("error")

\* C13: for every literal (tag, value) description whose tags are all
\* registered and whose direct construction succeeds, build_node returns a
\* tree equal to the directly constructed one, field for field: a callable is
\* invoked first, a list under a Container tag becomes a Container of the
\* built children in the same order, any other literal under a Container tag
\* becomes a Container holding a String, any other literal is passed to the
\* registered leaf type.
C13_BuildEquivalence ==
    (op = "build" /\ ~HasUnknownTag(arg.pair) /\ DirectTree(arg.pair).ok)
      => /\ obj.ok
         /\ Eq(obj.val, DirectTree(arg.pair).val)
         /\ Eq(DirectTree(arg.pair).val, obj.val)
         /\ obj.val = DirectTree(arg.pair).val

C13_Witness ==
    /\ op = "build" /\ obj.ok /\ ~HasUnknownTag(arg.pair)
    /\ arg.pair.lit.kind = "list" /\ Len(arg.pair.lit.v) = 2
    /\ arg.pair.lit.v[2].lit.kind = "list"
    /\ Len(arg.pair.lit.v[2].lit.v) = 2
    /\ arg.pair.lit.v[2].lit.v[2].lit.kind = "call"
    /\ Len(obj.val.value.value) = 2
    /\ obj.val.value.value[2].value.value[2].tag = tag_mstt
    /\ Eq(obj.val, DirectTree(arg.pair).val)


-----------------------------------------------------------------------------
(* The MD5 compression function as RFC 1321 states it, for comparison with *)
(* generate_code                                                           *)

\* T[i + 1] = floor(2^32 * abs(sin(i + 1))), as halves
md5_K ==
    <<<<55146, 42104>>, <<59591, 46934>>, <<9248, 28891>>, <<49597, 52974>>,
      <<62844, 4015>>, <<18311, 50730>>, <<43056, 17939>>, <<64838, 38145>>,
      <<27008, 39128>>, <<35652, 63407>>, <<65535, 23473>>, <<35164, 55230>>,
      <<27536, 4386>>, <<64920, 29075>>, <<42617, 17294>>, <<18868, 2081>>,
      <<63006, 9570>>, <<49216, 45888>>, <<9822, 23121>>, <<59830, 51114>>,
      <<54831, 4189>>, <<580, 5203>>, <<55457, 59009>>, <<59347, 64456>>,
      <<8673, 52710>>, <<49975, 2006>>, <<62677, 3463>>, <<17754, 5357>>,
      <<43491, 59653>>, <<64751, 41976>>, <<26479, 729>>, <<36138, 19594>>,
      <<65530, 14658>>, <<34673, 63105>>, <<28061, 24866>>, <<64997, 14348>>,
      <<42174, 59972>>, <<19422, 53161>>, <<63163, 19296>>, <<48831, 48240>>,
      <<10395, 32454>>, <<60065, 10234>>, <<54511, 12421>>, <<1160, 7429>>,
      <<55764, 53305>>, <<59099, 39397>>, <<8098, 31992>>, <<50348, 22117>>,
      <<62505, 8772>>, <<17194, 65431>>, <<43924, 9127>>, <<64659, 41017>>,
      <<25947, 22979>>, <<36620, 52370>>, <<65519, 62589>>, <<34180, 24017>>,
      <<28584, 32335>>, <<65068, 59104>>, <<41729, 17172>>, <<19976, 4513>>,
      <<63315, 32386>>, <<48442, 62005>>, <<10967, 53947>>, <<60294, 54161>>>>

\* the per-round rotation amounts
md5_S ==
    <<<<7, 12, 17, 22>>, <<5, 9, 14, 20>>, <<4, 11, 16, 23>>, <<6, 10, 15, 21>>>>

\* the message-word index schedule of step i (0..63)
md5_g(i) ==
    CASE i \div 16 = 0 -> i
      [] i \div 16 = 1 -> ((5 * i) + 1) % 16
      [] i \div 16 = 2 -> ((3 * i) + 5) % 16
      [] i \div 16 = 3 -> (7 * i) % 16

\* the round functions F, G, H, I
md5_f(i, x, y, z) ==
    CASE i \div 16 = 0 -> UInt32_or(UInt32_and(x, y), UInt32_and(UInt32_invert(x), z))
      [] i \div 16 = 1 -> UInt32_or(UInt32_and(x, z), UInt32_and(y, UInt32_invert(z)))
      [] i \div 16 = 2 -> UInt32_xor(x, UInt32_xor(y, z))
      [] i \div 16 = 3 -> UInt32_xor(y, UInt32_or(x, UInt32_invert(z)))

md5_rotl(v, s) == UInt32_or(UInt32_lshift(v, s), UInt32_rshift(v, 32 - s))

\* step i (0..63) on the words a, b, c, d, written without renaming the
\* words: the word assigned cycles a, d, c, b
md5_step(st, M, i) ==
    LET t == <<"a", "d", "c", "b">>[(i % 4) + 1]
        x == <<"b", "a", "d", "c">>[(i % 4) + 1]
        y == <<"c", "b", "a", "d">>[(i % 4) + 1]
        z == <<"d", "c", "b", "a">>[(i % 4) + 1]
        v == UInt32_add(UInt32_add(st[t], md5_f(i, st[x], st[y], st[z])),
                        UInt32_add(M[md5_g(i) + 1], md5_K[i + 1]))
    IN  [st EXCEPT ![t] = UInt32_add(st[x], md5_rotl(v, md5_S[(i \div 16) + 1][(i % 4) + 1]))]

md5_init ==
    [a |-> <<26437, 8961>>, b |-> <<61389, 43913>>,
     c |-> <<39098, 56574>>, d |-> <<4146, 21622>>]

\* pairing_id || UTF-16 passcode without byte-order mark || 0x80 || 31
\* zero bytes || 0xC0 || 7 zero bytes
md5_block(passcode, pair) ==
    pair \o JoinBytes([i \in 1..Len(passcode) |-> <<passcode[i] % 256, passcode[i] \div 256>>])
    \o <<128>> \o [i \in 1..31 |-> 0] \o <<192>> \o [i \in 1..7 |-> 0]

\* a block read as 16 little-endian 32-bit words
md5_words(block) ==
    [i \in 1..16 |-> <<(block[4 * i] * 256) + block[(4 * i) - 1],
                       (block[(4 * i) - 2] * 256) + block[(4 * i) - 3]>>]

\* the little-endian hex rendering of the words with the initial words
\* added back
md5_hex(st) ==
    LET digit(n) == IF n < 10 THEN 48 + n ELSE 55 + n
        byte(b)  == <<digit(b \div 16), digit(b % 16)>>
        word(w)  == byte(w[2] % 256) \o byte(w[2] \div 256)
                    \o byte(w[1] % 256) \o byte(w[1] \div 256)
    IN  word(UInt32_add(st.a, md5_init.a)) \o word(UInt32_add(st.b, md5_init.b))
        \o word(UInt32_add(st.c, md5_init.c)) \o word(UInt32_add(st.d, md5_init.d))

\* a generate_code call on a four-character passcode and a 16-byte pairing id
HashCall == arg.cls = "generate_code" /\ Len(arg.passcode) = 4 /\ Len(arg.pair) = 16

\* the call returns a text, and while it runs param holds the 16
\* little-endian words of the block and a..d start at the standard words
MD5Frame ==
    HashCall =>
        /\ op = "generate_code" => out.ok
        /\ op = "hashing" =>
             /\ frame.param = md5_words(md5_block(arg.passcode, arg.pair))
             /\ frame.n = 0 => frame.st = md5_init

\* every statement pair is the MD5 step of its position, and the text
\* returned is the rendering of the final words
MD5Step ==
    (HashCall /\ op = "hashing") =>
        /\ op' = "hashing" => frame'.st = md5_step(frame.st, frame.param, frame.n)
        /\ op' = "generate_code" => out' = Ok(md5_hex(frame.st))

\* C19: for every passcode and pairing id, generate_code returns the
\* little-endian hex rendering of the four words that the standard MD5
\* compression function gives on the block pairing id, UTF-16 passcode
\* without byte-order mark, 0x80, 31 zero bytes, 0xC0, 7 zero bytes, read as
\* 16 little-endian 32-bit words
C19_HashIsMD5Core == [](MD5Frame) /\ [][MD5Step]_vars


\* a text of 32 characters, each 0-9 or A-F
IsUpperHex32(text) ==
    /\ Len(text) = 32
    /\ \A i \in 1..32 : text[i] \in (48..57) \cup (65..70)

\* C14: generate_code returns a 32-character uppercase hex text, the same
\* text for the same (passcode, pairing id), and different texts for two
\* inputs that differ in the passcode or in the pairing id
C14_DeterminismAndSensitivity ==
    op = "generate_code" =>
        /\ out.ok /\ IsUpperHex32(out.val)
        /\ prev.ok =>
             ((arg.passcode = prev.val.passcode /\ arg.pair = prev.val.pair)
                 <=> out = prev.val.code)


\* the reply of the exchange decoded as the claim reads it: the Node, and
\* the values of its children tagged cmpg
ReplyNode == Node_deserialize(buf.val)

ReplyGuids == Node_getattr(ReplyNode.val, tag_cmpg)

\* what pair() has done when it is over: the request went out with the code
\* of (passcode, pairid); a reply that decodes to a Node with a cmpg child
\* gave the first cmpg value back; a failed exchange gave its exception back
\* and a failed decoding an exception
PairOutcome ==
    (op = "pair") =>
        /\ again.ok /\ IsUpperHex32(again.val.pairingcode)
        /\ ~buf.ok => out = buf
        /\ (buf.ok /\ ~ReplyNode.ok) => ~out.ok
        /\ (buf.ok /\ ReplyNode.ok /\ ReplyGuids.ok /\ Len(ReplyGuids.val) > 0)
               => out = Ok(ReplyGuids.val[1])

\* pair() leaves name, address, port and pairid of the remote alone
RemoteKept == (how = "TouchRemote") => obj' = obj

\* C16: TouchRemote.pair computes the pairing code from (passcode, pairid),
\* issues the request, returns the value of the first cmpg child of the
\* decoded reply, lets a failure of the exchange or of the decoding reach the
\* caller, and leaves the remote's name, address, port and pairid unchanged
C16_PairingOutcome == [](PairOutcome) /\ [][RemoteKept]_vars


\* the lengths the invariant relates, for a Node or a Container x: the
\* stored length against the lengths of the parts, and against the bytes
\* whenever x serializes
RECURSIVE LengthsAgree(_)
LengthsAgree(x) ==
    LET data == serialize(x)
    IN  CASE x.cls = "Node" ->
               /\ x.length = x.value.length + 8
               /\ data.ok =>
                    /\ Len(data.val) = x.length
                    /\ struct_unpack_from(4, TRUE, SubSeq(data.val, 5, 8)).val
                           = FromInt(x.value.length)
                    /\ x.value.length = Len(data.val) - 8
               /\ LengthsAgree(x.value)
          [] x.cls = "Container" /\ ~x.text ->
               /\ x.length = SumLength(x.value)
               /\ data.ok => Len(data.val) = x.length
               /\ \A i \in 1..Len(x.value) : LengthsAgree(x.value[i])
          [] x.cls = "Container" /\ x.text ->
               /\ data.ok => Len(data.val) = x.length
               /\ String_serialize(x.value).ok
                    => x.length = Len(String_serialize(x.value).val)
          [] OTHER -> TRUE

\* the trees a state holds: the constructed or built one, and the decoded one
Constructed == op \in {"construct", "build", "serialize"} /\ obj.ok /\ IsTree(obj.val)

Decoded == op \in {"deserialize", "reserialize"} /\ out.ok /\ IsTree(out.val)

\* C15: for every Node built by construction, by build_node or by
\* deserialize, the length field written by serialize equals the value's
\* byte length and len(node.serialize()) = len(node) = len(node.value) + 8;
\* for every Container, len(container) is the sum of its children's lengths
\* or the text's encoded length, and equals len(container.serialize())
C15_NodeLength ==
    /\ Constructed => LengthsAgree(obj.val)
    /\ Decoded => LengthsAgree(out.val)

\* a decoded Node holding two children or more has been serialized again
C15_Witness ==
    /\ op = "reserialize" /\ out.ok /\ again.ok
    /\ out.val.cls = "Node" /\ out.val.value.cls = "Container" /\ ~out.val.value.text
    /\ Len(out.val.value.value) >= 2
    /\ Len(again.val) = out.val.length


\* Container.deserialize has run on a buffer
ContainerDecoded == op = "deserialize" /\ how = "Container" /\ buf.ok

\* C17: Container.deserialize returns the text form only when
\* Node.deserialize fails structurally at offset 0, and then the text is the
\* whole buffer; once a child has been decoded the result is never a text
\* (so never a text of the buffer's tail with the decoded children dropped)
C17_TextOnlyAtStart ==
    (ContainerDecoded /\ out.ok /\ out.val.text) =>
        /\ ~Node_deserialize(buf.val).ok
        /\ IsValueError(Node_deserialize(buf.val).err)
        /\ String_serialize(out.val.value) = Ok(buf.val)

\* the buffer cut at the lengths its headers declare: the byte strings of
\* the Nodes it concatenates, when it is such a concatenation
RECURSIVE Pieces(_)
Pieces(bytes) ==
    IF bytes = <<>> THEN Ok(<<>>)
    ELSE IF Len(bytes) < 8 THEN Raise("ValueError")
    ELSE LET size == struct_unpack_from(4, TRUE, SubSeq(bytes, 5, 8)).val
         IN  IF BigLt(size, FromInt(0)) \/ BigLt(FromInt(Len(bytes) - 8), size)
             THEN Raise("ValueError")
             ELSE LET rest == Pieces(SubSeq(bytes, 9 + ToInt(size), Len(bytes)))
                  IN  IF rest.ok
                      THEN Ok(<<SubSeq(bytes, 1, 8 + ToInt(size))>> \o rest.val)
                      ELSE rest

\* a buffer that concatenates Nodes of registered types, each of which
\* Node.deserialize decodes on its own
DelimitedBuffer(bytes) ==
    /\ Pieces(bytes).ok
    /\ \A i \in 1..Len(Pieces(bytes).val) :
         LET piece == Pieces(bytes).val[i]
         IN  /\ TagType(SubSeq(piece, 1, 4)) # "KeyError"
             /\ Node_deserialize(piece).ok

\* C18: after each decoded Node the offset advances by 8 + the length its
\* header declares, for every registered type and declared length, so a
\* buffer that concatenates n Nodes gives exactly n children, each spanning
\* its header and declared payload, with the tags in buffer order
C18_DeclaredLengthDelimits ==
    (ContainerDecoded /\ DelimitedBuffer(buf.val)) =>
        LET pieces == Pieces(buf.val).val
        IN  /\ out.ok /\ ~out.val.text
            /\ Len(out.val.value) = Len(pieces)
            /\ \A i \in 1..Len(pieces) :
                 /\ out.val.value[i].tag = SubSeq(pieces[i], 1, 4)
                 /\ out.val.value[i].length = Len(pieces[i])

=============================================================================
